---------------------------- MODULE Spec2Model ----------------------------
(***************************************************************************)
(* Motion SDK: the framed socket transport (class Client).                 *)
(*                                                                         *)
(* The C++ client (tools/sdk/cpp/src/Client.cpp) is modelled as a state    *)
(* machine.  A public call runs until it returns, raises, or blocks in a   *)
(* system recv/send call; the position of a blocked call is part of the    *)
(* state (call.pc) and the next step is the system call returning.  The    *)
(* peer and the network are the environment: the peer appends frames to    *)
(* the byte stream, a recv returns any non-empty prefix of what is in      *)
(* flight (at most ReceiveBufferSize bytes), times out, or fails.          *)
(***************************************************************************)
EXTENDS Integers, Sequences, FiniteSets, TLC

(***************************************************************************)
(* Program constants.                                                      *)
(***************************************************************************)
MaximumMessageLength == 65535
ReceiveBufferSize == 1024
TimeOutWaitForData == 5
TimeOutReadData == 1
TimeOutWriteData == 1
\* "<?xml"
XMLMagic == <<60, 63, 120, 109, 108>>
\* sizeof(unsigned)
SizeofUnsigned == 4
\* the descriptor ::socket returns (any positive value)
SocketFd == 3

(***************************************************************************)
(* Bounds of the exploration.                                              *)
(***************************************************************************)
\* frames the peer sends on one connection
MaxFrames == 2
\* exceptions after which the application stops reading and writing
MaxRaises == 1
\* a send takes all the bytes it is given, or all but at most this many
MaxShortSend == 2
\* the sends of one writeData time out with EAGAIN at most this many times
MaxAgain == 1
\* the send of a message longer than this does not fail
MaxShortData == 2

Min(a, b) == IF a < b THEN a ELSE b

(***************************************************************************)
(* std::string helpers.  A string is a sequence of bytes 0..255.           *)
(***************************************************************************)
\* std::string::substr(pos, n): at most n bytes from offset pos (0-based)
substr(s, pos, n) == SubSeq(s, pos + 1, Min(pos + n, Len(s)))

\* std::string::substr(pos): the rest from offset pos
substr_from(s, pos) == SubSeq(s, pos + 1, Len(s))

\* htonl followed by the byte view of the unsigned: big-endian 4 bytes
htonl_bytes(n) ==
  << (n \div 16777216) % 256, (n \div 65536) % 256, (n \div 256) % 256, n % 256 >>

\* A 32 bit unsigned u is held as the integer of the same bit pattern in
\* -2^31 .. 2^31-1 (u - 2^32 when u >= 2^31).  Unsigned comparison with a
\* size n in 0 .. 2^31-1:
unsigned_less(u, n) == u >= 0 /\ u < n
unsigned_greater(u, n) == u < 0 \/ u > n

\* the byte view of the first 4 bytes read as unsigned, then ntohl
ntohl_bytes(s) ==
  (IF s[1] >= 128 THEN s[1] - 256 ELSE s[1]) * 16777216
    + s[2] * 65536 + s[3] * 256 + s[4]

\* message.size() >= XMLMagic.size() && message.substr(0, size) == XMLMagic
is_xml(message) ==
  /\ Len(message) >= Len(XMLMagic)
  /\ substr(message, 0, Len(XMLMagic)) = XMLMagic


(***************************************************************************)
(* State.                                                                  *)
(***************************************************************************)
VARIABLES
  device,                  \* Device plugin: Manager, Reader thread, Sampler (File.hpp 190-1259)
  file,                    \* File: the take file reader (File.hpp, File.cpp)
  console,                 \* a call of LuaConsole.SendChunk
  rotation,                \* a call of quaternion_to_R3_rotation
  use_exceptions,          \* build: MOTION_SDK_USE_EXCEPTIONS
  life,                    \* "new" | "live" | "dead" (constructor raised)
  m_socket,                \* Client::m_socket
  m_description,           \* Client::m_description
  m_xml_string,            \* Client::m_xml_string
  m_error_string,          \* Client::m_error_string
  m_nextMessage,           \* Client::m_nextMessage
  m_time_out_second,       \* Client::m_time_out_second
  m_time_out_second_send,  \* Client::m_time_out_second_send
  sock_state,              \* the descriptor: "none" | "unconnected" |
                           \* "connected" | "closed"
  so_rcvtimeo,             \* SO_RCVTIMEO of the descriptor, seconds
  so_sndtimeo,             \* SO_SNDTIMEO of the descriptor, seconds
  wire,                    \* bytes the peer sends on this connection that
                           \* recv has not returned yet
  peer_sent,               \* payloads of the frames the peer sent, in order
  peer_bad,                \* the peer sent an invalid length header
  peer_closed,             \* the peer shut its side down
  link,                    \* "up" | "reset"
  sent,                    \* bytes the current/last writeData put on the wire
  call,                    \* the public call in progress and its locals
  ret,                     \* how the last public call ended
  received,                \* messages operator>> returned, in order
  delivered,               \* payloads readData handed to the caller, in order
  io_fault,                \* some recv/send did not transfer data
  nraised,                 \* calls that ended by raising an exception
  decode,                  \* the Format decoder call: its input buffer and
                           \* what it returned
  element                  \* a Format.Element: what it was constructed from,
                           \* its m_data and the last accessor call

vars == << device,
           file,
           console,
           rotation,
           use_exceptions, life, m_socket, m_description, m_xml_string,
           m_error_string, m_nextMessage, m_time_out_second,
           m_time_out_second_send, sock_state, so_rcvtimeo, so_sndtimeo,
           wire, peer_sent, peer_bad, peer_closed, link, sent, call, ret,
           received, delivered, io_fault, nraised, decode, element >>

\* the state of the classes a Client does not touch
LibraryVars == << device, file, console, rotation, decode, element >>

\* a message on the wire: its length in 4 bytes, big-endian, then the message
Frame(p) == htonl_bytes(Len(p)) \o p

\* payloads the peer frames: a data payload and a control payload
D1 == << 1 >>
X1 == XMLMagic
PeerPayloads == { D1, X1 }

\* invalid length headers: zero and MaximumMessageLength + 1
BadHeaders == { htonl_bytes(0), htonl_bytes(MaximumMessageLength + 1) }

\* a message of n bytes
LongMessage(n) == SubSeq([i \in 1..n |-> i % 256], 1, n)

\* the messages the client writes: none, short ones, the longest allowed
\* and one byte more
WriteInputs ==
  { <<>>, << 7 >>, << 8, 9 >>, LongMessage(MaximumMessageLength),
    LongMessage(MaximumMessageLength + 1) }

\* the time_out_second argument of the public calls
TimeOutArgs == { -1, 0 }

\* what ::shutdown reports inside Client::close: it fails (ENOTCONN) only
\* on a connection that was reset
ShutdownResults(reset) ==
  IF reset THEN { "ok", "shutdown_fails" } ELSE { "ok" }

NoCall ==
  [ op |-> "none", pc |-> "idle", second |-> FALSE, toRecv |-> <<>>,
    bytes |-> 0, count |-> 0, message |-> <<>>, length |-> 0,
    toSend |-> <<>>, size |-> 0, open |-> FALSE, frames |-> <<>>,
    again |-> 0, time_out |-> 0 ]

NoRet ==
  [ op |-> "none", value |-> FALSE, raised |-> FALSE, data |-> <<>>,
    err |-> "", last |-> "none", at |-> "idle", size |-> 0, open |-> FALSE,
    frames |-> <<>>, again |-> 0, time_out |-> 0, header |-> <<>> ]

\* The running call: the object's members, the descriptor, the locals of the
\* call, and what the step has produced so far (header: the length that
\* operator>> took from a message header in this step, if it did).
Cur ==
  [ m_socket |-> m_socket, m_description |-> m_description,
    m_xml_string |-> m_xml_string, m_error_string |-> m_error_string,
    m_nextMessage |-> m_nextMessage, m_time_out_second |-> m_time_out_second,
    m_time_out_second_send |-> m_time_out_second_send,
    sock_state |-> sock_state, so_rcvtimeo |-> so_rcvtimeo,
    so_sndtimeo |-> so_sndtimeo,
    op |-> call.op, pc |-> call.pc, second |-> call.second,
    toRecv |-> call.toRecv, bytes |-> call.bytes, count |-> call.count,
    message |-> call.message, length |-> call.length, toSend |-> call.toSend,
    size |-> call.size, open |-> call.open, frames |-> call.frames,
    again |-> call.again, time_out |-> call.time_out,
    n |-> 0, chunk |-> <<>>, timed_out |-> FALSE, header |-> <<>>,
    exc |-> "", err |-> "", got |-> <<>>, out |-> <<>>,
    result |-> FALSE, data |-> <<>>, last |-> "none", at |-> call.pc ]


(***************************************************************************)
(* Client.cpp: error macros, close, receive, operator>>.                   *)
(* Each operator takes the running call c and returns it as the code       *)
(* leaves it.  c.exc # "" is an exception in flight; c.pc says where the   *)
(* call blocks ("first", "header", "payload": the three recv of            *)
(* operator>>) or "ret" once operator>> has returned.                      *)
(***************************************************************************)
\* CLIENT_ERROR(msg): throw detail::error(msg), or m_error_string.assign(msg)
CLIENT_ERROR(c, msg) ==
  IF use_exceptions
    THEN [c EXCEPT !.exc = msg, !.err = msg]
    ELSE [c EXCEPT !.m_error_string = msg, !.err = msg]

isConnected(c) == c.m_socket > 0

\* close that takes a new socket when the client is not connected
close_initialize(c, sys) ==
  IF isConnected(c)
    THEN IF sys = "shutdown_fails"
           THEN CLIENT_ERROR(c, "failed to shutdown socket communication")
           ELSE [c EXCEPT !.sock_state = "closed",
                          !.m_socket = -1,
                          !.m_description = <<>>,
                          !.m_xml_string = <<>>,
                          !.m_nextMessage = <<>>]
    ELSE [c EXCEPT !.m_socket = SocketFd, !.sock_state = "unconnected"]

\* Client::close; sys is what ::shutdown and ::close report
close(c, sys) ==
  IF isConnected(c)
    THEN IF sys = "shutdown_fails"
           THEN CLIENT_ERROR(c, "failed to shutdown socket communication")
           ELSE [c EXCEPT !.sock_state = "closed",
                          !.m_socket = -1,
                          !.m_description = <<>>,
                          !.m_xml_string = <<>>,
                          !.m_nextMessage = <<>>]
    ELSE CLIENT_ERROR(c, "failed to close client, not connected")

\* CATCH_ERROR(close()): try { close(); } catch (detail::error &) {}
CATCH_ERROR_close(c, sys) == [close(c, sys) EXCEPT !.exc = ""]

\* CLIENT_ERROR(msg); CLIENT_ERROR_OP(close()); CLIENT_ERROR_OP(return *this);
\* CLIENT_ERROR_OP(expr) is empty when exceptions are enabled
protocol_error(c, msg, sys) ==
  IF use_exceptions
    THEN CLIENT_ERROR(c, msg)
    ELSE [close(CLIENT_ERROR(c, msg), sys) EXCEPT !.pc = "ret"]

\* Client::receive after ::recv returned r
receive(c, r) ==
  LET x == [c EXCEPT !.last = r.t, !.at = c.pc, !.chunk = <<>>, !.n = 0,
                     !.timed_out = FALSE]
  IN  IF r.t = "data"
        THEN [x EXCEPT !.chunk = r.d, !.n = Len(r.d)]
        ELSE IF r.t = "zero"
               THEN x
               ELSE IF r.t = "ETIMEDOUT"
                      THEN [x EXCEPT !.timed_out = TRUE]
                      ELSE IF r.t = "EINTR"
                             THEN x
                             ELSE CLIENT_ERROR(x,
                                    "failed to read data from socket")

\* operator>> from the message header check to the payload loop or the return
after_header(c, sys) ==
  IF c.bytes < SizeofUnsigned \/ c.bytes # Len(c.toRecv)
    THEN protocol_error(c,
           "communication protocol error, failed to read full message header",
           sys)
    ELSE
      LET length == ntohl_bytes(c.toRecv)
          message == substr(c.toRecv, SizeofUnsigned, length)
          endMessage == length + SizeofUnsigned
      IN  IF length = 0 \/ unsigned_greater(length, MaximumMessageLength)
            THEN protocol_error([c EXCEPT !.header = << length >>],
              "communication protocol error, message header specifies invalid length",
              sys)
            ELSE IF Len(message) < length
                   THEN [c EXCEPT !.length = length, !.message = message,
                                  !.header = << length >>,
                                  !.pc = "payload"]
                   ELSE [c EXCEPT !.length = length, !.message = message,
                                  !.header = << length >>,
                                  !.m_nextMessage =
                                     IF Len(c.toRecv) > endMessage
                                       THEN substr_from(c.toRecv, endMessage)
                                       ELSE @,
                                  !.pc = "ret"]

\* while ((bytes < sizeof(unsigned)) && (count < (sizeof(unsigned)-1)))
header_loop(c, sys) ==
  IF c.bytes < SizeofUnsigned /\ c.count < SizeofUnsigned - 1
    THEN [c EXCEPT !.pc = "header"]
    ELSE after_header(c, sys)

\* operator>> after the first chunk (pending bytes or the first receive)
after_first(c, sys) ==
  IF c.exc # ""
    THEN c
    ELSE IF c.bytes = 0
           THEN [(IF ~c.timed_out THEN CATCH_ERROR_close(c, sys) ELSE c)
                   EXCEPT !.pc = "ret"]
           ELSE header_loop(c, sys)

\* operator>> from its entry to its first recv (or to its return)
op_extract_begin(c, sys) ==
  LET c0 == [c EXCEPT !.message = <<>>, !.toRecv = <<>>, !.bytes = 0,
                      !.count = 0, !.length = 0, !.timed_out = FALSE]
  IN  IF c.m_nextMessage # <<>>
        THEN after_first([c0 EXCEPT !.toRecv = c.m_nextMessage,
                                    !.bytes = Len(c.m_nextMessage),
                                    !.m_nextMessage = <<>>], sys)
        ELSE IF ~isConnected(c)
               THEN after_first(c0, sys)
               ELSE [c0 EXCEPT !.pc = "first"]

\* operator>> resumed at c.pc by ::recv returning r
op_extract_resume(c, r, sys) ==
  LET x == receive(c, r)
      endMessage == c.length - Len(c.message)
      message == c.message \o substr(x.chunk, 0, endMessage)
  IN  IF x.exc # ""
        THEN x
        ELSE IF c.pc = "first"
          THEN after_first([x EXCEPT !.toRecv = x.chunk, !.bytes = x.n], sys)
        ELSE IF c.pc = "header"
          THEN IF x.n = 0
                 THEN protocol_error(x,
                   "communication protocol error, failed to read message header",
                   sys)
                 ELSE header_loop([x EXCEPT !.toRecv = @ \o x.chunk,
                                            !.bytes = @ + x.n,
                                            !.count = @ + 1], sys)
        ELSE IF x.n = 0
          THEN IF use_exceptions
                 THEN CLIENT_ERROR(x,
                        "communication protocol error, message interrupted")
                 ELSE [close([CLIENT_ERROR(x,
                          "communication protocol error, message interrupted")
                                EXCEPT !.message = <<>>], sys)
                         EXCEPT !.pc = "ret"]
          ELSE IF Len(message) < c.length
                 THEN [x EXCEPT !.message = message]
                 ELSE [x EXCEPT !.message = message,
                                !.m_nextMessage =
                                   IF endMessage < Len(x.chunk)
                                     THEN substr_from(x.chunk, endMessage)
                                     ELSE @,
                                !.pc = "ret"]


(***************************************************************************)
(* Client.cpp: the public calls.                                           *)
(***************************************************************************)
\* Client::setReceiveTimeout
setReceiveTimeout(c, second) ==
  IF isConnected(c)
    THEN [c EXCEPT !.so_rcvtimeo = second, !.m_time_out_second = second]
    ELSE CLIENT_ERROR(c,
           "failed to set client receive time out, socket is not connected")

\* the receive time out a call selects: time_out_second < 0 is the default
select_receive_timeout(c, time_out_second, default) ==
  IF time_out_second < 0
    THEN IF default # c.m_time_out_second
           THEN setReceiveTimeout(c, default)
           ELSE c
    ELSE setReceiveTimeout(c, time_out_second)

\* a message operator>> returned to its caller
note_message(c) ==
  IF c.message # <<>> THEN [c EXCEPT !.got = Append(@, c.message)] ELSE c

\* Client::waitForData from the return of operator>> to its own return
waitForData_finish(c) ==
  LET c1 == note_message(c)
      c2 == IF is_xml(c.message)
              THEN [c1 EXCEPT !.m_xml_string = c.message]
              ELSE c1
  IN  [c2 EXCEPT !.result = (c.message # <<>>), !.pc = "done"]

\* Client::waitForData from its entry to the first recv
waitForData_begin(c, time_out_second, sys) ==
  IF isConnected(c)
    THEN op_extract_begin(
           select_receive_timeout(c, time_out_second, TimeOutWaitForData), sys)
    ELSE [CLIENT_ERROR(c,
            "failed to wait for incoming data, client is not connected")
            EXCEPT !.pc = "done"]

\* Client::readData from the return of the last operator>> to its own return
readData_finish(c) ==
  LET c1 == note_message(c)
  IN  IF c.message # <<>>
        THEN [c1 EXCEPT !.data = c.message, !.result = TRUE, !.pc = "done"]
        ELSE [c1 EXCEPT !.pc = "done"]

\* Client::readData after the first operator>> returned: a control message
\* is stored and operator>> is called once more (m_intercept_xml is true)
readData_continue(c, sys) ==
  IF is_xml(c.message)
    THEN LET c1 == [note_message(c) EXCEPT !.m_xml_string = c.message,
                                           !.second = TRUE]
             c2 == op_extract_begin(c1, sys)
         IN  IF c2.exc = "" /\ c2.pc = "ret" THEN readData_finish(c2) ELSE c2
    ELSE readData_finish(c)

\* Client::readData from its entry to the first recv
readData_begin(c, time_out_second, sys) ==
  IF isConnected(c)
    THEN op_extract_begin(
           select_receive_timeout(c, time_out_second, TimeOutReadData), sys)
    ELSE [CLIENT_ERROR(c, "failed to read data, client is not connected")
            EXCEPT !.pc = "done"]

\* Client_finish that keeps the greeting as the control message
Client_finish_xml(c) ==
  [note_message(c) EXCEPT !.m_xml_string = c.message, !.pc = "done"]

\* Client::Client(host, port) from the return of operator>> to its own return
\* (*this >> m_description)
Client_finish(c) ==
  [note_message(c) EXCEPT !.m_description = c.message, !.pc = "done"]

\* Client::Client(host, port) up to the first recv; conn is what inet_pton
\* and ::connect report
Client_begin(c, conn, sys) ==
  LET s == [c EXCEPT !.sock_state = "unconnected"]
  IN  IF conn = "badhost"
        THEN [CLIENT_ERROR(s, "failed to parse host string")
                EXCEPT !.pc = "done"]
        ELSE IF conn = "refused"
          THEN [(IF use_exceptions
                   THEN CLIENT_ERROR(s, "connection refused by remote host")
                   ELSE CLIENT_ERROR(s, "failed to connect to remote host"))
                  EXCEPT !.pc = "done"]
        ELSE IF conn = "fail"
          THEN [CLIENT_ERROR(s, "failed to connect to remote host")
                  EXCEPT !.pc = "done"]
        ELSE op_extract_begin(
               setReceiveTimeout([s EXCEPT !.m_socket = SocketFd,
                                           !.sock_state = "connected"],
                                 TimeOutWaitForData), sys)

\* Client::setSendTimeout
setSendTimeout(c, second) ==
  IF isConnected(c)
    THEN [c EXCEPT !.so_sndtimeo = second, !.m_time_out_second_send = second]
    ELSE CLIENT_ERROR(c,
           "failed to set client send time out, socket is not connected")

\* Client::send after ::send returned r.  The unsigned it returns is
\* static_cast<unsigned>(result): -1 stands for 0xFFFFFFFF
send(c, r) ==
  LET x == [c EXCEPT !.last = r.t, !.at = c.pc, !.n = 0, !.timed_out = FALSE]
  IN  IF r.t = "data"
        THEN [x EXCEPT !.n = r.k]
        ELSE IF r.t = "ETIMEDOUT"
               THEN [x EXCEPT !.timed_out = TRUE]
               ELSE IF r.t = "EINTR"
                      THEN x
                      ELSE [CLIENT_ERROR(x, "failed to read data from socket")
                              EXCEPT !.n = -1]

\* operator<< from the loop test after a send to the next send or the return
after_send(c, sys) ==
  IF unsigned_less(c.bytes, Len(c.toSend))
    THEN [c EXCEPT !.pc = "send_more"]
    ELSE IF c.bytes # Len(c.toSend)
           THEN protocol_error(c,
             "communication protocol error, failed to write complete message",
             sys)
           ELSE [c EXCEPT !.pc = "ret"]

\* operator<< from its entry to its first send (or to its return)
op_insert_begin(c, message, sys) ==
  IF Len(message) > 0
    THEN IF Len(message) > MaximumMessageLength
           THEN protocol_error(c,
                  "communication protocol error, message too long to send",
                  sys)
           ELSE IF ~isConnected(c)
                  THEN protocol_error(c,
                    "communication protocol error, failed to write message",
                    sys)
                  ELSE [c EXCEPT !.toSend = htonl_bytes(Len(message)) \o message,
                                 !.bytes = 0, !.pc = "send"]
    ELSE [c EXCEPT !.pc = "ret"]

\* operator<< resumed at c.pc by ::send returning r
op_insert_resume(c, r, sys) ==
  LET x == send(c, r)
  IN  IF x.exc # ""
        THEN x
        ELSE IF x.n = 0
          THEN protocol_error(x,
                 IF c.pc = "send"
                   THEN "communication protocol error, failed to write message"
                   ELSE "communication protocol error, message interrupted",
                 sys)
          ELSE after_send([x EXCEPT !.bytes = @ + x.n], sys)

\* the bytes the blocked send was asked to write: toSend, then
\* toSend.substr(bytes)
send_buffer(c) ==
  IF c.pc = "send" THEN c.toSend ELSE substr_from(c.toSend, c.bytes)

\* Client::writeData from the return of operator<< to its own return
writeData_finish(c) == [c EXCEPT !.result = TRUE, !.pc = "done"]

\* writeData_begin with result = true set before the test of isConnected
writeData_begin_result_first(c, data, time_out_second, sys) ==
  IF data = <<>>
    THEN [c EXCEPT !.pc = "done"]
    ELSE IF isConnected(c)
      THEN op_insert_begin(
             IF time_out_second < 0
               THEN IF TimeOutWriteData # c.m_time_out_second_send
                      THEN setSendTimeout(c, TimeOutWriteData)
                      ELSE c
               ELSE setSendTimeout(c, c.m_time_out_second_send),
             data, sys)
      ELSE [CLIENT_ERROR(c, "failed to read data, client is not connected")
              EXCEPT !.result = TRUE, !.pc = "done"]

\* Client::writeData from its entry to the first send
writeData_begin(c, data, time_out_second, sys) ==
  IF data = <<>>
    THEN [c EXCEPT !.pc = "done"]
    ELSE IF isConnected(c)
      THEN op_insert_begin(
             IF time_out_second < 0
               THEN IF TimeOutWriteData # c.m_time_out_second_send
                      THEN setSendTimeout(c, TimeOutWriteData)
                      ELSE c
               ELSE setSendTimeout(c, c.m_time_out_second_send),
             data, sys)
      ELSE [CLIENT_ERROR(c, "failed to read data, client is not connected")
              EXCEPT !.pc = "done"]

\* the caller of operator>> once operator>> has returned
advance(c, sys) ==
  IF c.exc # "" \/ c.pc # "ret"
    THEN c
    ELSE IF c.op = "waitForData" THEN waitForData_finish(c)
    ELSE IF c.op = "writeData" THEN writeData_finish(c)
    ELSE IF c.op = "readData"
      THEN IF c.second
             THEN readData_finish(c)
             ELSE readData_continue(c, sys)
    ELSE Client_finish(c)


(***************************************************************************)
(* Client.java.  The Java client keeps socket, in, out, description,       *)
(* time_out_second and time_out_second_send; they are held in sock_state,  *)
(* m_description, m_time_out_second and m_time_out_second_send.  A null    *)
(* byte[] is the empty message.  c.pc is "readInt" or "read" while         *)
(* receive() blocks in in.readInt() or in.read(buffer).                    *)
(***************************************************************************)
\* socket.setSoTimeout(second * 1000)
Java_setSoTimeout(c, second) ==
  IF c.sock_state = "closed"
    THEN [c EXCEPT !.exc = "SocketException", !.err = "SocketException"]
    ELSE [c EXCEPT !.so_rcvtimeo = second]

\* Client.receive() from its entry to the first read of in.readInt()
Java_receive_begin(c) ==
  IF c.exc # ""
    THEN c
    ELSE IF c.sock_state = "closed"
      THEN [c EXCEPT !.exc = "SocketException", !.err = "SocketException"]
      ELSE [c EXCEPT !.toRecv = <<>>, !.message = <<>>, !.length = 0,
                     !.pc = "readInt"]

\* Client.receive() resumed at c.pc by the socket read returning r
Java_receive_resume(c, r) ==
  LET x == [c EXCEPT !.last = r.t, !.at = c.pc]
      null == [x EXCEPT !.message = <<>>, !.pc = "ret"]
      header == c.toRecv \o r.d
      length == ntohl_bytes(header)
  IN  IF r.t = "ETIMEDOUT"
        THEN null
      ELSE IF r.t = "ECONNRESET"
        THEN [x EXCEPT !.exc = "IOException", !.err = "IOException"]
      ELSE IF c.pc = "readInt"
        THEN IF r.t = "zero"
               THEN [x EXCEPT !.exc = "EOFException", !.err = "EOFException"]
               ELSE IF Len(header) < SizeofUnsigned
                 THEN [x EXCEPT !.toRecv = header]
                 ELSE IF length > 0 /\ length < MaximumMessageLength
                   THEN [x EXCEPT !.toRecv = header, !.length = length,
                                  !.pc = "read"]
                   ELSE null
        ELSE IF r.t = "data" /\ c.length = Len(r.d)
               THEN [x EXCEPT !.message = r.d, !.pc = "ret"]
               ELSE null

\* the caller of Client.receive() once it has returned
Java_advance(c) ==
  IF c.exc # "" \/ c.pc # "ret"
    THEN c
    ELSE LET c1 == note_message(c)
         IN  IF c.op = "ctor"
               THEN [c1 EXCEPT !.m_description =
                                  IF c.message # <<>> THEN c.message ELSE @,
                               !.pc = "done"]
               ELSE IF c.op = "waitForData"
                 THEN [c1 EXCEPT !.result = (c.message # <<>>), !.pc = "done"]
                 ELSE [c1 EXCEPT !.result = (c.message # <<>>),
                                 !.data = c.message, !.pc = "done"]

\* Client.waitForData(time_out) up to the first read
Java_waitForData(c, time_out) ==
  LET t == IF -1 = time_out THEN TimeOutWaitForData ELSE time_out
      c1 == Java_setSoTimeout(c, TimeOutWaitForData)
  IN  Java_receive_begin(
        IF t # c.m_time_out_second
          THEN IF c1.exc # ""
                 THEN c1
                 ELSE [c1 EXCEPT !.m_time_out_second = TimeOutWaitForData]
          ELSE c)

\* Client.readData(time_out) up to the first read
Java_readData(c, time_out) ==
  LET t == IF -1 = time_out THEN TimeOutReadData ELSE time_out
      c1 == Java_setSoTimeout(c, t)
  IN  Java_receive_begin(
        IF t # c.m_time_out_second
          THEN IF c1.exc # "" THEN c1 ELSE [c1 EXCEPT !.m_time_out_second = t]
          ELSE c)

\* Client.send(buffer); io is what the writes to the socket report.  The
\* bytes written are left in c.out
Java_send(c, buffer, io) ==
  LET length == Len(buffer)
  IN  IF c.exc # ""
        THEN c
        ELSE IF length > 0 /\ length < MaximumMessageLength
          THEN IF io = "ok" /\ c.sock_state # "closed"
                 THEN [c EXCEPT !.out = htonl_bytes(length) \o buffer,
                                !.result = TRUE, !.pc = "done"]
                 ELSE [c EXCEPT !.exc = "IOException", !.err = "IOException",
                                !.last = "EPIPE"]
          ELSE [c EXCEPT !.pc = "done"]

\* Client.writeData(data, time_out)
Java_writeData(c, data, time_out, io) ==
  LET t == IF -1 = time_out THEN TimeOutWriteData ELSE time_out
      c1 == Java_setSoTimeout(c, t)
  IN  Java_send(
        IF t # c.m_time_out_second_send
          THEN IF c1.exc # ""
                 THEN c1
                 ELSE [c1 EXCEPT !.m_time_out_second_send = t]
          ELSE c,
        data, io)


(***************************************************************************)
(* Client.cs.  m_socket = null is m_socket = -1; m_connected is true       *)
(* exactly when m_socket is not null.  m_socket.ReceiveTimeout and         *)
(* m_socket.SendTimeout are so_rcvtimeo and so_sndtimeo, in seconds.  A    *)
(* null byte[] is the empty message.  c.pc is "cs_header" or "cs_payload"  *)
(* while receive() blocks in one of its two m_socket.Receive calls.        *)
(***************************************************************************)
\* Client.close(): a SocketException of Shutdown or Close is swallowed
Cs_close(c) ==
  IF c.m_socket > 0
    THEN [c EXCEPT !.sock_state = "closed", !.m_socket = -1,
                   !.m_description = <<>>, !.m_xml_string = <<>>]
    ELSE c

\* Client.receive() from its entry to its first Receive
Cs_receive_begin(c) ==
  IF isConnected(c)
    THEN [c EXCEPT !.toRecv = <<>>, !.message = <<>>, !.length = 0,
                   !.pc = "cs_header"]
    ELSE [c EXCEPT !.message = <<>>, !.pc = "ret"]

\* Client.receive() resumed at c.pc by m_socket.Receive returning r
Cs_receive_resume(c, r) ==
  LET x == [c EXCEPT !.last = r.t, !.at = c.pc]
      null == [x EXCEPT !.message = <<>>, !.pc = "ret"]
      message_length ==
        IF r.t = "data" /\ Len(r.d) = SizeofUnsigned
          THEN ntohl_bytes(r.d)
          ELSE 0
  IN  IF c.pc = "cs_header"
        THEN IF r.t \in { "ETIMEDOUT", "ECONNRESET" }
               THEN null
               ELSE IF message_length > 0
                         /\ message_length <= MaximumMessageLength
                 THEN [x EXCEPT !.length = message_length,
                                !.pc = "cs_payload"]
                 ELSE IF message_length = 0 THEN Cs_close(null) ELSE null
        ELSE IF r.t = "ECONNRESET"
               THEN [x EXCEPT !.message = [i \in 1..c.length |-> 0],
                              !.pc = "ret"]
               ELSE IF r.t = "data" /\ Len(r.d) = c.length
                      THEN [x EXCEPT !.message = r.d, !.pc = "ret"]
                      ELSE null

\* the caller of Client.receive() once it has returned
Cs_advance(c) ==
  IF c.pc # "ret"
    THEN c
    ELSE LET c1 == note_message(c)
             c2 == IF is_xml(c.message)
                     THEN [c1 EXCEPT !.m_xml_string = c.message]
                     ELSE c1
             done == [c1 EXCEPT !.result = (c.message # <<>>),
                                !.data = c.message, !.pc = "done"]
             again == Cs_receive_begin([c2 EXCEPT !.second = TRUE])
         IN  IF c.op = "ctor"
               THEN [c1 EXCEPT !.pc = "done"]
             ELSE IF c.op = "waitForData"
               THEN [c2 EXCEPT !.result = (c.message # <<>>), !.pc = "done"]
             ELSE IF ~c.second /\ is_xml(c.message)
               THEN IF again.pc = "ret"
                      THEN [again EXCEPT !.pc = "done"]
                      ELSE again
               ELSE done

\* Client.readData(time_out_second) up to the first Receive
Cs_readData(c, time_out_second) ==
  IF isConnected(c)
    THEN Cs_receive_begin(
           IF time_out_second < 0
             THEN IF TimeOutReadData # c.so_rcvtimeo
                    THEN [c EXCEPT !.so_rcvtimeo = TimeOutReadData]
                    ELSE c
             ELSE [c EXCEPT !.so_rcvtimeo = time_out_second])
    ELSE [c EXCEPT !.pc = "done"]

\* Client.waitForData(time_out_second) up to the first Receive
Cs_waitForData(c, time_out_second) ==
  IF isConnected(c)
    THEN Cs_receive_begin(
           IF time_out_second < 0
             THEN IF TimeOutReadData # c.so_rcvtimeo
                    THEN [c EXCEPT !.so_rcvtimeo = TimeOutWaitForData]
                    ELSE c
             ELSE [c EXCEPT !.so_rcvtimeo = time_out_second])
    ELSE [c EXCEPT !.pc = "done"]

\* Client.writeData(data, time_out_second); r is what m_socket.Send(buffer)
\* reports.  The bytes written are left in c.out
Cs_writeData(c, data, time_out_second, r) ==
  LET c1 == IF time_out_second < 0
              THEN IF TimeOutWriteData # c.so_sndtimeo
                     THEN [c EXCEPT !.so_sndtimeo = TimeOutWriteData]
                     ELSE c
              ELSE [c EXCEPT !.so_sndtimeo = time_out_second]
      buffer == htonl_bytes(Len(data)) \o data
      x == [c1 EXCEPT !.last = r.t, !.at = "cs_send", !.pc = "done"]
  IN  IF isConnected(c) /\ Len(data) > 0
        THEN IF r.t = "data"
               THEN [x EXCEPT !.out = SubSeq(buffer, 1, r.k),
                              !.result = (Len(buffer) = r.k)]
               ELSE IF r.t = "ETIMEDOUT" THEN x ELSE Cs_close(x)
        ELSE [c EXCEPT !.pc = "done"]


(***************************************************************************)
(* The state machine.                                                      *)
(***************************************************************************)
Blocked(pc) ==
  pc \in { "first", "header", "payload", "send", "send_more",
           "readInt", "read", "cs_header", "cs_payload" }

ClientInit ==
  /\ use_exceptions \in BOOLEAN
  /\ life = "new"
  /\ m_socket = -1
  /\ m_description = <<>>
  /\ m_xml_string = <<>>
  /\ m_error_string = ""
  /\ m_nextMessage = <<>>
  /\ m_time_out_second = 0
  /\ m_time_out_second_send = 0
  /\ sock_state = "none"
  /\ so_rcvtimeo = 0
  /\ so_sndtimeo = 0
  /\ wire = <<>>
  /\ peer_sent = <<>>
  /\ peer_bad = FALSE
  /\ peer_closed = FALSE
  /\ link = "up"
  /\ sent = <<>>
  /\ call = NoCall
  /\ ret = NoRet
  /\ received = <<>>
  /\ delivered = <<>>
  /\ io_fault = FALSE
  /\ nraised = 0

\* no Format decoder is called in the life of a client
NoDecode ==
  [ lang |-> "none", shape |-> "none", records |-> <<>>, stray |-> <<>>,
    buffer |-> <<>>, position |-> 0, calls |-> 0, op |-> "none",
    large_arrays |-> FALSE, result |-> <<>>, null |-> FALSE, raised |-> "",
    previous |-> [ map |-> <<>>, null |-> FALSE, raised |-> "" ] ]

\* no Format.Element is constructed in the life of a client
NoElement ==
  [ lang |-> "none", kind |-> "none", null |-> FALSE, data |-> <<>>,
    pc |-> "none", m_data_null |-> TRUE, m_data |-> <<>>, op |-> "none",
    start |-> 0, length |-> 0, result |-> <<>>, raised |-> "" ]

\* quaternion_to_R3_rotation is not called in the life of a client
NoRotation ==
  [ lang |-> "none", q |-> <<>>, scale |-> 1, pc |-> "none",
    null |-> FALSE, result |-> <<>> ]

\* LuaConsole.SendChunk is not called in the life of this client
NoConsole ==
  [ lang |-> "none", exceptions |-> FALSE, charset |-> "none",
    written |-> FALSE, read |-> FALSE, response |-> <<>>, pc |-> "none",
    code |-> "Failure", string |-> <<>>, raised |-> "" ]

\* no File object is in use
NoFile ==
  [ lang |-> "cpp", is_open |-> FALSE, good |-> FALSE, bytes |-> <<>>,
    position |-> 0, length |-> 0, data |-> <<>>, gcount |-> 0,
    op |-> "none", result |-> FALSE, raised |-> "", ended |-> FALSE ]

\* no Manager, Reader or Sampler is in use
NoDevice ==
  [ buffered |-> FALSE, quit |-> FALSE, connected |-> FALSE,
    reading |-> FALSE, m_running |-> "indeterminate", m_data_fn |-> FALSE,
    m_mutex |-> "none", node |-> FALSE, m_sampler_id |-> 0,
    m_data |-> "empty", m_list |-> <<>>, samples |-> 0,
    reader |-> "none", main |-> "none", consumer |-> "none",
    result |-> FALSE ]

Init ==
  /\ ClientInit
  /\ decode = NoDecode
  /\ element = NoElement
  /\ device = NoDevice
  /\ file = NoFile
  /\ console = NoConsole
  /\ rotation = NoRotation

\* the application enters a public call: size is the length of the message
\* it passes, open says whether the client is connected at that point
Enter(op, size) ==
  [Cur EXCEPT !.op = op, !.size = size,
              !.open = (sock_state = "connected")]

\* the application enters a public call that takes a time out argument
EnterWith(op, size, time_out_second) ==
  [Enter(op, size) EXCEPT !.time_out = time_out_second]

\* the step of a call ends with the call as f: write it back
Commit(f) ==
  /\ m_socket' = f.m_socket
  /\ m_description' = f.m_description
  /\ m_xml_string' = f.m_xml_string
  /\ m_error_string' = f.m_error_string
  /\ m_nextMessage' = f.m_nextMessage
  /\ m_time_out_second' = f.m_time_out_second
  /\ m_time_out_second_send' = f.m_time_out_second_send
  /\ sock_state' = f.sock_state
  /\ so_rcvtimeo' = f.so_rcvtimeo
  /\ so_sndtimeo' = f.so_sndtimeo
  /\ received' = received \o f.got
  /\ IF f.exc = "" /\ Blocked(f.pc)
       THEN /\ nraised' = nraised
            /\ call' = [ op |-> f.op, pc |-> f.pc, second |-> f.second,
                         toRecv |-> f.toRecv, bytes |-> f.bytes,
                         count |-> f.count, message |-> f.message,
                         length |-> f.length, toSend |-> f.toSend,
                         size |-> f.size, open |-> f.open,
                         frames |-> f.frames \o f.got,
                         again |-> IF f.last = "EAGAIN"
                                     THEN f.again + 1
                                     ELSE f.again,
                         time_out |-> f.time_out ]
            /\ ret' = NoRet
            /\ life' = life
            /\ delivered' = delivered
       ELSE /\ nraised' = IF f.exc # "" /\ nraised < MaxRaises
                             THEN nraised + 1
                             ELSE nraised
            /\ call' = NoCall
            /\ ret' = [ op |-> f.op,
                        value |-> (f.exc = "" /\ f.result),
                        raised |-> (f.exc # ""),
                        data |-> IF f.exc = "" THEN f.data ELSE <<>>,
                        err |-> f.err, last |-> f.last, at |-> f.at,
                        size |-> f.size, open |-> f.open,
                        frames |-> f.frames \o f.got,
                        again |-> f.again, time_out |-> f.time_out,
                        header |-> f.header ]
            /\ life' = IF f.op = "ctor"
                         THEN (IF f.exc = "" THEN "live" ELSE "dead")
                         ELSE life
            /\ delivered' = IF f.op = "readData" /\ f.exc = "" /\ f.result
                              THEN Append(delivered, f.data)
                              ELSE delivered

Idle == life = "live" /\ call.op = "none"

\* the application goes on reading and writing
Going == Idle /\ nraised < MaxRaises

\* Client client(host, port)
Construct(conn, sys) ==
  /\ life = "new" /\ call.op = "none"
  /\ Commit(Client_begin(Enter("ctor", 0), conn, sys))
  /\ UNCHANGED << LibraryVars, use_exceptions, wire, peer_sent, peer_bad, peer_closed,
                  link, sent, io_fault >>

\* client.waitForData(time_out_second)
WaitForData(time_out_second, sys) ==
  /\ Going
  /\ Commit(advance(waitForData_begin(
                      EnterWith("waitForData", 0, time_out_second),
                                      time_out_second, sys), sys))
  /\ UNCHANGED << LibraryVars, use_exceptions, wire, peer_sent, peer_bad, peer_closed,
                  link, sent, io_fault >>

\* client.readData(data, time_out_second)
ReadData(time_out_second, sys) ==
  /\ Going
  /\ Commit(advance(readData_begin(
                      EnterWith("readData", 0, time_out_second),
                                   time_out_second, sys), sys))
  /\ UNCHANGED << LibraryVars, use_exceptions, wire, peer_sent, peer_bad, peer_closed,
                  link, sent, io_fault >>

\* client.close()
Close(sys) ==
  /\ Idle
  /\ Commit([close(Enter("close", 0), sys) EXCEPT !.pc = "done"])
  /\ UNCHANGED << LibraryVars, use_exceptions, wire, peer_sent, peer_bad, peer_closed,
                  link, sent, io_fault >>

\* what ::recv may return to the blocked call: a non-empty prefix of the
\* bytes in flight, 0 once the peer has shut down and nothing is in flight,
\* or -1 with errno ETIMEDOUT (a receive time out is set), EINTR, ECONNRESET
SocketRecv(size) ==
  IF link = "reset"
    THEN { [t |-> "ECONNRESET"] }
    ELSE { [t |-> "data", d |-> SubSeq(wire, 1, k)] :
             k \in 1..Min(Len(wire), size) }
         \cup (IF peer_closed /\ wire = <<>> THEN { [t |-> "zero"] } ELSE {})
         \cup (IF so_rcvtimeo > 0 THEN { [t |-> "ETIMEDOUT"] } ELSE {})
         \cup { [t |-> "ECONNRESET"] }

\* ::recv(m_socket, &m_buffer[0], m_buffer.size(), MSG_NOSIGNAL): a signal
\* interrupts it (EINTR), and where the receive time out is reported as
\* WSAETIMEDOUT on Windows (the ETIMEDOUT of the code) it is reported as
\* EAGAIN on POSIX
RecvResults ==
  SocketRecv(ReceiveBufferSize)
    \cup (IF link = "reset" THEN {} ELSE { [t |-> "EINTR"] })
    \cup (IF link # "reset" /\ so_rcvtimeo > 0
            THEN { [t |-> "EAGAIN"] }
            ELSE {})

\* what a receive does to the connection
Received(r) ==
  /\ wire' = IF r.t = "data" THEN substr_from(wire, Len(r.d))
             ELSE IF r.t = "ECONNRESET" THEN <<>> ELSE wire
  /\ link' = IF r.t = "ECONNRESET" THEN "reset" ELSE link
  /\ io_fault' = (io_fault \/ r.t # "data")

\* ::recv returns to the call blocked in Client::receive
RecvReturn(r, sys) ==
  /\ call.pc \in { "first", "header", "payload" }
  /\ r \in RecvResults
  /\ sys \in ShutdownResults(r.t = "ECONNRESET")
  /\ Commit(advance(op_extract_resume(Cur, r, sys), sys))
  /\ Received(r)
  /\ UNCHANGED << LibraryVars, use_exceptions, peer_sent, peer_bad, peer_closed, sent >>

\* what ::send may return to the blocked call asked to write size bytes:
\* the number of bytes the socket took (all, or all but a few), or -1 with
\* errno ETIMEDOUT or, on POSIX, EAGAIN (a send time out is set), EINTR,
\* EPIPE; the send of a long message does not fail
SendResults(size) ==
  IF link = "reset"
    THEN { [t |-> "EPIPE"] }
    ELSE { [t |-> "data", k |-> k] :
             k \in { j \in 1..size : size - j <= MaxShortSend } }
         \cup (IF Len(call.toSend) > SizeofUnsigned + MaxShortData
                THEN {}
                ELSE (IF so_sndtimeo > 0
                        THEN { [t |-> "ETIMEDOUT"] }
                             \cup (IF call.again < MaxAgain
                                     THEN { [t |-> "EAGAIN"] }
                                     ELSE {})
                        ELSE {})
                     \cup { [t |-> "EINTR"], [t |-> "EPIPE"] })

\* the size of the buffer the blocked send was asked to write
send_size == IF call.pc = "send" THEN Len(call.toSend)
             ELSE Len(call.toSend) - call.bytes

\* client.writeData(data, time_out_second); the application writes on a
\* connection on which the peer sends no message
WriteData(data, time_out_second, sys) ==
  /\ Going
  /\ peer_sent = <<>> /\ ~peer_bad
  /\ Commit(advance(writeData_begin(
                      EnterWith("writeData", Len(data), time_out_second),
                                    data, time_out_second, sys), sys))
  /\ sent' = <<>>
  /\ UNCHANGED << LibraryVars, use_exceptions, wire, peer_sent, peer_bad, peer_closed,
                  link, io_fault >>

\* ::send returns to the call blocked in Client::send
SendReturn(r, sys) ==
  /\ call.pc \in { "send", "send_more" }
  /\ r \in SendResults(send_size)
  /\ sys \in ShutdownResults(r.t = "EPIPE")
  /\ Commit(advance(op_insert_resume(Cur, r, sys), sys))
  /\ sent' = IF r.t = "data"
               THEN sent \o SubSeq(send_buffer(Cur), 1, r.k)
               ELSE sent
  /\ link' = IF r.t = "EPIPE" THEN "reset" ELSE link
  /\ wire' = IF r.t = "EPIPE" THEN <<>> ELSE wire
  /\ io_fault' = (io_fault \/ r.t # "data")
  /\ UNCHANGED << LibraryVars, use_exceptions, peer_sent, peer_bad, peer_closed >>

\* The peer's side of the connection is fixed before the client connects:
\* recv returns any prefix of what is in flight and may time out whatever is
\* in flight, so when the peer sends makes no difference to the client.
\* The peer sends one frame: 4 byte big-endian length, then the payload
PeerSend(p) ==
  /\ life = "new" /\ call.op = "none"
  /\ ~peer_closed /\ ~peer_bad
  /\ Len(peer_sent) < MaxFrames
  /\ wire' = wire \o Frame(p)
  /\ peer_sent' = Append(peer_sent, p)
  /\ UNCHANGED << LibraryVars, use_exceptions, life, m_socket, m_description,
                  m_xml_string, m_error_string, m_nextMessage,
                  m_time_out_second, m_time_out_second_send, sock_state,
                  so_rcvtimeo, so_sndtimeo, peer_bad, peer_closed, link,
                  sent, call, ret, received, delivered, io_fault, nraised >>

\* the peer sends an invalid length header
PeerSendBad(h) ==
  /\ life = "new" /\ call.op = "none"
  /\ ~peer_closed /\ ~peer_bad
  /\ Len(peer_sent) < MaxFrames
  /\ wire' = wire \o h
  /\ peer_bad' = TRUE
  /\ UNCHANGED << LibraryVars, use_exceptions, life, m_socket, m_description,
                  m_xml_string, m_error_string, m_nextMessage,
                  m_time_out_second, m_time_out_second_send, sock_state,
                  so_rcvtimeo, so_sndtimeo, peer_sent, peer_closed, link,
                  sent, call, ret, received, delivered, io_fault, nraised >>

\* the peer shuts the connection down
PeerClose ==
  /\ life = "new" /\ call.op = "none"
  /\ ~peer_closed /\ ~peer_bad
  /\ peer_closed' = TRUE
  /\ UNCHANGED << LibraryVars, use_exceptions, life, m_socket, m_description,
                  m_xml_string, m_error_string, m_nextMessage,
                  m_time_out_second, m_time_out_second_send, sock_state,
                  so_rcvtimeo, so_sndtimeo, wire, peer_sent, peer_bad, link,
                  sent, call, ret, received, delivered, io_fault, nraised >>

Next ==
  \/ \E conn \in { "ok", "refused", "fail", "badhost" } :
       Construct(conn, "ok")
  \/ \E t \in TimeOutArgs, sys \in ShutdownResults(link = "reset") :
       WaitForData(t, sys)
  \/ \E t \in TimeOutArgs, sys \in ShutdownResults(link = "reset") :
       ReadData(t, sys)
  \/ \E data \in WriteInputs, t \in TimeOutArgs,
          sys \in ShutdownResults(link = "reset") :
       WriteData(data, t, sys)
  \/ \E sys \in ShutdownResults(link = "reset") : Close(sys)
  \/ \E r \in RecvResults, sys \in { "ok", "shutdown_fails" } :
       RecvReturn(r, sys)
  \/ \E r \in SendResults(send_size),
          sys \in { "ok", "shutdown_fails" } :
       SendReturn(r, sys)
  \/ \E p \in PeerPayloads : PeerSend(p)
  \/ \E h \in BadHeaders : PeerSendBad(h)
  \/ PeerClose

Spec == Init /\ [][Next]_vars

(***************************************************************************)
(* The Java client against the same peer.                                  *)
(***************************************************************************)
\* new Client(host, port); conn is what new Socket(host, port) reports
JavaConstruct(conn) ==
  /\ life = "new" /\ call.op = "none"
  /\ Commit(IF conn = "ok"
              THEN Java_receive_begin([Cur EXCEPT !.op = "ctor",
                                                  !.m_socket = SocketFd,
                                                  !.sock_state = "connected"])
              ELSE [Cur EXCEPT !.op = "ctor", !.exc = "IOException",
                               !.err = "IOException"])
  /\ UNCHANGED << LibraryVars, use_exceptions, wire, peer_sent, peer_bad, peer_closed,
                  link, sent, io_fault >>

\* client.waitForData(time_out)
JavaWaitForData(time_out) ==
  /\ Going
  /\ Commit(Java_waitForData(EnterWith("waitForData", 0, time_out), time_out))
  /\ UNCHANGED << LibraryVars, use_exceptions, wire, peer_sent, peer_bad, peer_closed,
                  link, sent, io_fault >>

\* client.readData(time_out)
JavaReadData(time_out) ==
  /\ Going
  /\ Commit(Java_readData(EnterWith("readData", 0, time_out), time_out))
  /\ UNCHANGED << LibraryVars, use_exceptions, wire, peer_sent, peer_bad, peer_closed,
                  link, sent, io_fault >>

\* client.writeData(data, time_out)
JavaWriteData(data, time_out, io) ==
  /\ Going
  /\ link = "reset" => io # "ok"
  /\ LET f == Java_writeData(EnterWith("writeData", Len(data), time_out), data,
                             time_out, io)
     IN  /\ Commit(f)
         /\ sent' = f.out
         /\ link' = IF f.last = "EPIPE" THEN "reset" ELSE link
         /\ wire' = IF f.last = "EPIPE" THEN <<>> ELSE wire
         /\ io_fault' = (io_fault \/ f.last = "EPIPE")
  /\ UNCHANGED << LibraryVars, use_exceptions, peer_sent, peer_bad, peer_closed >>

\* client.close(): in.close(); socket.close()
JavaClose ==
  /\ Idle
  /\ Commit([Cur EXCEPT !.op = "close", !.sock_state = "closed",
                        !.pc = "done"])
  /\ UNCHANGED << LibraryVars, use_exceptions, wire, peer_sent, peer_bad, peer_closed,
                  link, sent, io_fault >>

\* in.readInt() reads the header a byte at a time, in.read(buffer) up to
\* buffer.length bytes
JavaRecvResults ==
  SocketRecv(IF call.pc = "readInt" THEN 1 ELSE call.length)

\* the socket read returns to the call blocked in Client.receive()
JavaRecvReturn(r) ==
  /\ call.pc \in { "readInt", "read" }
  /\ r \in JavaRecvResults
  /\ Commit(Java_advance(Java_receive_resume(Cur, r)))
  /\ Received(r)
  /\ UNCHANGED << LibraryVars, use_exceptions, peer_sent, peer_bad, peer_closed, sent >>

InitJava == Init /\ use_exceptions

NextJava ==
  \/ \E conn \in { "ok", "fail" } : JavaConstruct(conn)
  \/ \E t \in TimeOutArgs : JavaWaitForData(t)
  \/ \E t \in TimeOutArgs : JavaReadData(t)
  \/ \E data \in WriteInputs, t \in TimeOutArgs, io \in { "ok", "fail" } :
       JavaWriteData(data, t, io)
  \/ JavaClose
  \/ \E r \in JavaRecvResults : JavaRecvReturn(r)
  \/ \E p \in PeerPayloads : PeerSend(p)
  \/ \E h \in BadHeaders : PeerSendBad(h)
  \/ PeerClose

SpecJava == InitJava /\ [][NextJava]_vars


(***************************************************************************)
(* The C# client against the same peer.                                    *)
(***************************************************************************)
\* new Client(host, port); conn is what socket.Connect reports.  A
\* SocketException ends in close() and the constructor returns
CsConstruct(conn) ==
  /\ life = "new" /\ call.op = "none"
  /\ Commit(IF conn = "ok"
              THEN Cs_receive_begin([Cur EXCEPT
                     !.op = "ctor", !.m_socket = SocketFd,
                     !.sock_state = "connected",
                     !.so_rcvtimeo = TimeOutWaitForData])
              ELSE [Cs_close(Enter("ctor", 0))
                      EXCEPT !.pc = "done"])
  /\ UNCHANGED << LibraryVars, use_exceptions, wire, peer_sent, peer_bad, peer_closed,
                  link, sent, io_fault >>

\* client.waitForData(time_out_second)
CsWaitForData(time_out_second) ==
  /\ Going
  /\ Commit(Cs_advance(Cs_waitForData(
                         EnterWith("waitForData", 0, time_out_second),
                                      time_out_second)))
  /\ UNCHANGED << LibraryVars, use_exceptions, wire, peer_sent, peer_bad, peer_closed,
                  link, sent, io_fault >>

\* client.readData(time_out_second)
CsReadData(time_out_second) ==
  /\ Going
  /\ Commit(Cs_advance(Cs_readData(
                         EnterWith("readData", 0, time_out_second),
                                   time_out_second)))
  /\ UNCHANGED << LibraryVars, use_exceptions, wire, peer_sent, peer_bad, peer_closed,
                  link, sent, io_fault >>

\* what m_socket.Send(buffer) may report for the buffer of data
CsSendResults(data) ==
  IF m_socket > 0 /\ Len(data) > 0
    THEN SendResults(SizeofUnsigned + Len(data))
           \ { [t |-> "EINTR"], [t |-> "EAGAIN"] }
    ELSE { [t |-> "none"] }

\* client.writeData(data, time_out_second); the application writes on a
\* connection on which the peer sends no message
CsWriteData(data, time_out_second, r) ==
  /\ Going
  /\ peer_sent = <<>> /\ ~peer_bad
  /\ LET f == Cs_writeData(
                EnterWith("writeData", Len(data), time_out_second), data,
                           time_out_second, r)
     IN  /\ Commit(f)
         /\ sent' = f.out
         /\ link' = IF r.t = "EPIPE" THEN "reset" ELSE link
         /\ wire' = IF r.t = "EPIPE" THEN <<>> ELSE wire
         /\ io_fault' = (io_fault \/ r.t \in { "EPIPE", "ETIMEDOUT" })
  /\ UNCHANGED << LibraryVars, use_exceptions, peer_sent, peer_bad, peer_closed >>

\* client.close()
CsClose ==
  /\ Idle
  /\ Commit([Cs_close(Enter("close", 0)) EXCEPT !.pc = "done"])
  /\ UNCHANGED << LibraryVars, use_exceptions, wire, peer_sent, peer_bad, peer_closed,
                  link, sent, io_fault >>

\* m_socket.Receive(buffer, size, SocketFlags.None): size is sizeof(int) for
\* the header and message_length for the payload
CsRecvResults ==
  SocketRecv(IF call.pc = "cs_header" THEN SizeofUnsigned ELSE call.length)

\* m_socket.Receive returns to the call blocked in Client.receive()
CsRecvReturn(r) ==
  /\ call.pc \in { "cs_header", "cs_payload" }
  /\ r \in CsRecvResults
  /\ Commit(Cs_advance(Cs_receive_resume(Cur, r)))
  /\ Received(r)
  /\ UNCHANGED << LibraryVars, use_exceptions, peer_sent, peer_bad, peer_closed, sent >>

InitCs == Init /\ ~use_exceptions

NextCs ==
  \/ \E conn \in { "ok", "fail" } : CsConstruct(conn)
  \/ \E t \in TimeOutArgs : CsWaitForData(t)
  \/ \E t \in TimeOutArgs : CsReadData(t)
  \/ \E data \in WriteInputs, t \in TimeOutArgs :
       \E r \in (IF Going /\ peer_sent = <<>> THEN CsSendResults(data) ELSE {}) :
         CsWriteData(data, t, r)
  \/ CsClose
  \/ \E r \in CsRecvResults : CsRecvReturn(r)
  \/ \E p \in PeerPayloads : PeerSend(p)
  \/ \E h \in BadHeaders : PeerSendBad(h)
  \/ PeerClose

SpecCs == InitCs /\ [][NextCs]_vars

(***************************************************************************)
(* The claims.  ret describes the public call that returned last: its      *)
(* name, what it returned, whether it raised, the error it reported, the   *)
(* last result of recv/send it saw and where, the length of the message it *)
(* was given, whether the client was connected when it was entered, and    *)
(* the messages the low-level read handed back to it.                      *)
(***************************************************************************)
RECURSIVE FrameBytes(_)
\* the bytes of a sequence of frames
FrameBytes(fs) ==
  IF fs = <<>> THEN <<>> ELSE Frame(Head(fs)) \o FrameBytes(Tail(fs))

IsData(m) == ~is_xml(m)

\* the message the last writeData was given
WrittenMessage == CHOOSE d \in WriteInputs : Len(d) = ret.size

\* no byte of the stream is lost, repeated or reordered: the frames read so
\* far, the pending bytes and the bytes in flight are what the peer sent
Conserved ==
  /\ Len(received) <= Len(peer_sent)
  /\ received = SubSeq(peer_sent, 1, Len(received))
  /\ FrameBytes(received) \o m_nextMessage \o wire = FrameBytes(peer_sent)

ReadCalls == { "waitForData", "readData" }

\* C1: a message of 1 to MaximumMessageLength bytes (MaximumMessageLength
\* included) that writeData is given on a connected client, with no I/O
\* failure, goes out as its length in 4 big-endian bytes followed by the
\* message, byte for byte and nothing else: the frame the read path takes
\* apart again
C1_FramingRoundTrip ==
  ( /\ ret.op = "writeData"
    /\ ret.open
    /\ ~ret.raised
    /\ ret.size >= 1 /\ ret.size <= MaximumMessageLength
    /\ ret.again = 0
    /\ ret.last \notin { "ETIMEDOUT", "EAGAIN", "EINTR", "EPIPE" } )
  => sent = Frame(WrittenMessage)

\* C2: however recv splits the byte stream, and with no time out or I/O
\* error, a read on a connected client leaves the stream whole: the frames
\* returned so far are the first frames the peer sent, each once and in
\* order, and the bytes read past the frame are pending, next to be parsed
C2_Reassembly ==
  ( /\ ret.op \in ReadCalls \cup { "ctor" }
    /\ ret.open \/ ret.op = "ctor"
    /\ ~io_fault /\ ~peer_bad )
  => Conserved

\* C3: no data frame is lost: with no time out or I/O error, the frames that
\* waitForData and readData have taken off the stream (all but the greeting
\* the constructor read), less the control frames, are the payloads readData
\* has returned, in order
C3_NoDataFrameLost ==
  ( /\ ret.op \in ReadCalls
    /\ ~io_fault /\ ~peer_bad )
  => delivered =
       SelectSeq(IF received = <<>> THEN <<>> ELSE Tail(received), IsData)

\* C4: readData never returns a payload that starts with <?xml, whatever
\* the sequence of incoming frames
C4_ControlNeverData ==
  (ret.op = "readData" /\ ret.value) => ~is_xml(ret.data)


\* the results of recv and send that mean the configured time out elapsed:
\* WSAETIMEDOUT from Winsock, EAGAIN from a POSIX socket
TimedOut == { "ETIMEDOUT", "EAGAIN" }

\* C5: whenever readData or waitForData ends because the receive time out
\* elapsed it returns no data / false, reports no error, the client is still
\* connected and the stream is whole, so that a later read returns the next
\* frame
C5_TimeoutRecoverable ==
  (ret.op \in ReadCalls /\ ret.last \in TimedOut)
  => /\ ~ret.raised /\ ret.err = ""
     /\ ~ret.value /\ ret.data = <<>>
     /\ m_socket > 0 /\ sock_state = "connected"
     /\ (nraised = 0 /\ ~peer_bad) => Conserved

\* an I/O failure that is no time out: the connection was reset, the pipe
\* broke, the length header was invalid, or the peer shut down inside a frame
IOFailure ==
  \/ ret.last \in { "ECONNRESET", "EPIPE" }
  \/ ret.err =
       "communication protocol error, message header specifies invalid length"
  \/ ret.last = "zero" /\ ret.at \in { "header", "payload" }

\* C6: a read or write on a connected client that met an I/O failure other
\* than a time out leaves the client closed: isConnected() is false and the
\* socket is released
C6_FailureCloses ==
  ( /\ ret.op \in ReadCalls \cup { "writeData" }
    /\ ret.open
    /\ IOFailure )
  => m_socket <= 0 /\ sock_state = "closed"

\* C7: writeData of more than MaximumMessageLength bytes on a connected
\* client fails, puts no byte on the wire and leaves the client connected
C7_OversizedRejected ==
  (ret.op = "writeData" /\ ret.open /\ ret.size > MaximumMessageLength)
  => /\ ~ret.value
     /\ sent = <<>>
     /\ m_socket > 0 /\ sock_state = "connected"

\* C8: when the send of writeData times out the client is still connected
C8_SendTimeoutKeepsOpen ==
  (ret.op = "writeData" /\ ret.open /\ ret.last \in TimedOut)
  => m_socket > 0 /\ sock_state = "connected"

\* C9: writeData returns true only if the whole frame was written; it does
\* not return true when the client is not connected, when the message is
\* empty, or when a send failed, and then the client is closed as well
C9_WriteDataResult ==
  ret.op = "writeData"
  => /\ ret.value => sent = Frame(WrittenMessage)
     /\ (~ret.open \/ ret.size = 0) => ~ret.value
     /\ (ret.open /\ ret.last \in { "EPIPE", "EINTR" })
          => (~ret.value /\ m_socket <= 0)

\* what waitForData does with the one message the low-level read hands back
C10_FrameHandling ==
  /\ ret.value <=> ret.frames # <<>>
  /\ ret.frames # <<>>
       => /\ Len(ret.frames) = 1 /\ ret.frames[1] # <<>>
          /\ (nraised = 0 /\ ~peer_bad)
               => ret.frames[1] = peer_sent[Len(received)]
          /\ is_xml(ret.frames[1]) => m_xml_string = ret.frames[1]

\* C10: waitForData on a connected client returns true if and only if a
\* complete non-empty frame arrived, a control frame is stored in
\* m_xml_string as well, and on every time out or peer shutdown it returns
\* false
C10_WaitForData ==
  (ret.op = "waitForData" /\ ret.open)
  => /\ C10_FrameHandling
     /\ ret.last \in TimedOut \cup { "zero" } => (~ret.value /\ ~ret.raised)

\* the time out the running call asked for: its argument, or the default of
\* the call when the argument is negative
RequestedTimeout ==
  IF call.time_out >= 0
    THEN call.time_out
    ELSE IF call.op = "waitForData" THEN TimeOutWaitForData
         ELSE IF call.op = "readData" THEN TimeOutReadData
         ELSE TimeOutWriteData

\* C11: whatever earlier calls configured, while waitForData or readData
\* blocks in a receive the receive time out of the socket is the one the call
\* asked for: 5 s for waitForData and 1 s for readData by default, exactly t
\* for an explicit t >= 0
C11_ReceiveTimeoutSelection ==
  (call.op \in ReadCalls /\ Blocked(call.pc))
  => so_rcvtimeo = RequestedTimeout

\* C12: while writeData blocks in a send the send time out of the socket is
\* the one the call asked for: 1 s by default, exactly t for an explicit
\* t >= 0
C12_SendTimeoutSelection ==
  (call.op = "writeData" /\ Blocked(call.pc))
  => so_sndtimeo = RequestedTimeout

\* what the application can see of the client: the connection, the pending
\* bytes, the stored messages and the configured time outs
ClientState ==
  << m_socket, sock_state, m_description, m_xml_string, m_nextMessage,
     m_time_out_second, m_time_out_second_send >>

\* C13: close() on a connected client leaves it not connected, the socket
\* released, whatever ::shutdown and ::close report; close() on a client that
\* is not connected changes nothing of the client
C13_Close ==
  [][ ret'.op = "close"
      => /\ ret'.open => (m_socket' <= 0 /\ sock_state' = "closed")
         /\ ~ret'.open => ClientState' = ClientState ]_vars

\* the public calls that read or write on the connection
IOCalls == ReadCalls \cup { "writeData" }

\* C14: waitForData, readData and writeData on a client that is not connected
\* do not block in a recv or send, return false / no data, put nothing on the
\* wire (sent holds the bytes of the last writeData) and leave the connection, the pending bytes and the stored control
\* message as they were
C14_NotConnectedNoOp ==
  [][ /\ (call'.op \in IOCalls /\ m_socket <= 0) => ~Blocked(call'.pc)
      /\ (ret'.op \in IOCalls /\ ~ret'.open)
           => /\ ~ret'.value /\ ret'.data = <<>>
              /\ sent' = (IF ret'.op = "writeData" THEN <<>> ELSE sent)
              /\ wire' = wire
              /\ ClientState' = ClientState ]_vars

\* writeData returned on a client that is not connected
C14_Witness ==
  /\ ret.op = "writeData" /\ ~ret.open /\ ret.size > 0
  /\ m_socket <= 0 /\ life = "live"

\* the descriptor and the connection agree
SocketAgrees == life = "live" => (m_socket > 0 <=> sock_state = "connected")

\* C15: once the constructor has finished, normally or with an error, either
\* the client is connected with an open socket, or it is not connected and no
\* socket that the constructor created is left open
C15_ConstructionAllOrNothing ==
  ret.op = "ctor"
  => \/ ~ret.raised /\ m_socket > 0 /\ sock_state = "connected"
     \/ m_socket <= 0 /\ sock_state \in { "none", "closed" }

\* C16 as the specification states it: when the constructor has read a
\* greeting, the stored control message (what getXMLString returns) is that
\* greeting
C16_GreetingIsControlMessage ==
  (ret.op = "ctor" /\ ~ret.raised /\ ret.frames # <<>>)
  => m_xml_string = ret.frames[1]

\* C16: when the constructor has read a greeting it is stored as the
\* description of the service, m_description, and the stored control message
\* is still empty
C16_GreetingIsDescription ==
  (ret.op = "ctor" /\ ~ret.raised /\ ret.frames # <<>>)
  => /\ Len(ret.frames) = 1
     /\ m_description = ret.frames[1]
     /\ m_xml_string = <<>>

\* the constructor has read the greeting the peer sent and the client is
\* connected
C16_Witness ==
  /\ ret.op = "ctor" /\ ~ret.raised /\ Len(peer_sent) >= 1
  /\ ret.frames = << peer_sent[1] >>
  /\ m_socket > 0 /\ m_description = peer_sent[1]

\* C17: a read that takes a length header of 0 off the stream treats it as
\* a graceful shutdown of the peer: no data, no error raised or reported, the
\* connection closed; a read that takes a length header greater than
\* MaximumMessageLength reports a protocol error and closes the connection
C17_HeaderClassification ==
  (ret.op \in ReadCalls \cup { "ctor" } /\ ret.header # <<>>)
  => /\ ret.header = << 0 >>
          => /\ ~ret.raised /\ ret.err = ""
             /\ ~ret.value /\ ret.data = <<>>
             /\ m_socket <= 0 /\ sock_state = "closed"
     /\ unsigned_greater(ret.header[1], MaximumMessageLength)
          => /\ ret.err # ""
             /\ ~ret.value /\ ret.data = <<>>
             /\ m_socket <= 0 /\ sock_state = "closed"


(***************************************************************************)
(* Format: the decoders of the data messages (C# Format.cs, Java           *)
(* Format.java).  A buffer is a sequence of bytes; a float value is        *)
(* written as its IEEE-754 bit pattern read as a 32 bit signed integer; a  *)
(* map is a function from its keys to their values.                        *)
(***************************************************************************)
SizeofInt == 4
SizeofFloat == 4
SizeofShort == 2

ConfigurableElement_Length == 0
PreviewElement_Length == 14
SensorElement_Length == 9
RawElement_Length == 9

\* the four bytes at itr read most significant byte first
ToInt32_big_endian(buffer, itr) ==
  buffer[itr + 4] + 256 * buffer[itr + 3] + 65536 * buffer[itr + 2]
    + 16777216 * (IF buffer[itr + 1] >= 128 THEN buffer[itr + 1] - 256
                                              ELSE buffer[itr + 1])

\* BitConverter.ToInt32(buffer, itr), ByteBuffer.getInt() in LITTLE_ENDIAN
\* order: four bytes from the 0-based offset itr, two's complement
ToInt32(buffer, itr) ==
  buffer[itr + 1] + 256 * buffer[itr + 2] + 65536 * buffer[itr + 3]
    + 16777216 * (IF buffer[itr + 4] >= 128 THEN buffer[itr + 4] - 256
                                              ELSE buffer[itr + 4])

\* BitConverter.ToSingle(buffer, itr), ByteBuffer.getFloat(): the float whose
\* bit pattern is the four little-endian bytes at itr
ToSingle(buffer, itr) == ToInt32(buffer, itr)

\* BitConverter.ToInt16(buffer, itr), ByteBuffer.getShort()
ToInt16(buffer, itr) ==
  buffer[itr + 1]
    + 256 * (IF buffer[itr + 2] >= 128 THEN buffer[itr + 2] - 256
                                        ELSE buffer[itr + 2])

EmptyMap == <<>>

\* java.util.Map.put, and Dictionary.Add for a key that is not present
MapPut(map, key, value) ==
  [ k \in DOMAIN map \cup { key } |-> IF k = key THEN value ELSE map[k] ]

\* what a decoder hands back: the map, whether the reference is null, and
\* the exception that left the decoder, if any
Returned(map) == [ map |-> map, null |-> FALSE, raised |-> "" ]
ReturnedNull == [ map |-> EmptyMap, null |-> TRUE, raised |-> "" ]
Thrown(exception) == [ map |-> EmptyMap, null |-> FALSE, raised |-> exception ]

\* the for loop, storing each float one place late
ReadFloats_shifted(buffer, itr, element_length) ==
  [ i \in 1..element_length |->
      IF i = 1 THEN 0 ELSE ToSingle(buffer, itr + SizeofFloat * (i - 2)) ]

\* the for loop that reads element_length floats from itr
ReadFloats(buffer, itr, element_length) ==
  [ i \in 1..element_length |->
      ToSingle(buffer, itr + SizeofFloat * (i - 1)) ]

\* the for loop that reads length shorts from itr
ReadShorts(buffer, itr, length) ==
  [ i \in 1..length |-> ToInt16(buffer, itr + SizeofShort * (i - 1)) ]

\* element_length * sizeof(float) for element_length > 0, in the 32 bit
\* signed arithmetic of int: the product is taken modulo 2^32
FloatBytes(element_length) ==
  LET low == element_length % 536870912
  IN IF (element_length \div 536870912) % 2 = 1
     THEN ((low * SizeofFloat) - 2147483647) - 1
     ELSE low * SizeofFloat

\* the floats that the bytes from itr to the end of the buffer hold
FloatsLeft(buffer, itr) == (Len(buffer) - itr) \div SizeofFloat

\* the runtime can allocate an array of more than 2^31 bytes
\* (gcAllowVeryLargeObjects)
LargeArrays == decode.large_arrays

\* new float[element_length] followed by the for loop of ToSingle, for an
\* element_length that the bytes left do not hold: the allocation fails, or
\* ToSingle is given an index at or near the end of the buffer
CsReadPastEnd(buffer, itr, element_length) ==
  IF element_length >= 536870912 /\ ~LargeArrays
  THEN "OutOfMemoryException"
  ELSE IF itr + SizeofFloat * FloatsLeft(buffer, itr) >= Len(buffer)
  THEN "ArgumentOutOfRangeException"
  ELSE "ArgumentException"

\* C# Format.IdToFloatArray: the while loop, from offset itr with the
\* dictionary result; Dictionary.Add throws on a key that is present
RECURSIVE CsIdToFloatArray_loop(_, _, _, _)
CsIdToFloatArray_loop(buffer, length, itr, result) ==
  IF ~(itr < Len(buffer) /\ (Len(buffer) - itr) > SizeofInt)
  THEN [ itr |-> itr, result |-> result, raised |-> "" ]
  ELSE
    LET key == ToInt32(buffer, itr)
        itr_key == itr + SizeofInt
        read_length ==
          (0 = length) /\ ((Len(buffer) - itr_key) > SizeofInt)
        element_length ==
          IF read_length THEN ToInt32(buffer, itr_key) ELSE length
        itr_length ==
          IF read_length THEN itr_key + SizeofInt ELSE itr_key
    IN IF (element_length > 0)
          /\ ((Len(buffer) - itr_length) >= FloatBytes(element_length))
       THEN
         LET value == ReadFloats(buffer, itr_length, element_length)
             itr_value == itr_length + element_length * SizeofFloat
         IN IF element_length > FloatsLeft(buffer, itr_length)
            THEN [ itr |-> itr_length, result |-> result,
                   raised |-> CsReadPastEnd(buffer, itr_length,
                                            element_length) ]
            ELSE IF key \in DOMAIN result
            THEN [ itr |-> itr_value, result |-> result,
                   raised |-> "ArgumentException" ]
            ELSE CsIdToFloatArray_loop(buffer, length, itr_value,
                                       MapPut(result, key, value))
       ELSE CsIdToFloatArray_loop(buffer, length, itr_length, result)

\* C# Format.IdToFloatArray
CsIdToFloatArray(buffer, length) ==
  LET end == CsIdToFloatArray_loop(buffer, length, 0, EmptyMap)
      result == IF end.itr # Len(buffer) THEN EmptyMap ELSE end.result
  IN IF end.raised # "" THEN Thrown(end.raised)
     ELSE IF 0 = Cardinality(DOMAIN result) THEN ReturnedNull
     ELSE Returned(result)

\* C# Format.IdToShortArray: the while loop
RECURSIVE CsIdToShortArray_loop(_, _, _, _)
CsIdToShortArray_loop(buffer, length, itr, result) ==
  LET element_size == SizeofInt + SizeofShort * length
  IN IF ~(itr < Len(buffer) /\ element_size <= (Len(buffer) - itr))
     THEN [ itr |-> itr, result |-> result, raised |-> "" ]
     ELSE
       LET key == ToInt32(buffer, itr)
           value == ReadShorts(buffer, itr + SizeofInt, length)
       IN IF key \in DOMAIN result
          THEN [ itr |-> itr + element_size, result |-> result,
                 raised |-> "ArgumentException" ]
          ELSE CsIdToShortArray_loop(buffer, length, itr + element_size,
                                     MapPut(result, key, value))

\* C# Format.IdToShortArray
CsIdToShortArray(buffer, length) ==
  LET end == CsIdToShortArray_loop(buffer, length, 0, EmptyMap)
      result == IF end.itr # Len(buffer) THEN EmptyMap ELSE end.result
  IN IF end.raised # "" THEN Thrown(end.raised)
     ELSE IF 0 = Cardinality(DOMAIN result) THEN ReturnedNull
     ELSE Returned(result)

\* Element<T>(data, length): m_data, which stays null (written <<>>: the
\* array of a fixed-width element is never empty) on a length mismatch
Element(data, length) ==
  IF (Len(data) = length) \/ (0 = length) THEN data ELSE <<>>

\* C# Format.Configurable, Preview, Sensor and Raw after the call of
\* IdToFloatArray / IdToShortArray returned map: map.Count is read from the
\* reference whatever it is
CsElements(map, length) ==
  IF map.raised # "" THEN map
  ELSE IF map.null THEN Thrown("NullReferenceException")
  ELSE IF Cardinality(DOMAIN map.map) > 0
       THEN Returned([ k \in DOMAIN map.map |->
                         Element(map.map[k], length) ])
       ELSE ReturnedNull

CsConfigurable(data) ==
  CsElements(CsIdToFloatArray(data, ConfigurableElement_Length),
             ConfigurableElement_Length)

CsPreview(data) ==
  CsElements(CsIdToFloatArray(data, PreviewElement_Length),
             PreviewElement_Length)

CsSensor(data) ==
  CsElements(CsIdToFloatArray(data, SensorElement_Length),
             SensorElement_Length)

CsRaw(data) ==
  CsElements(CsIdToShortArray(data, RawElement_Length), RawElement_Length)


\* Java Format.IdToFloatArray: the while loop, from the position of the
\* buffer with the map result; Map.put replaces the value of a key that is
\* present
RECURSIVE JavaIdToFloatArray_loop(_, _, _, _)
JavaIdToFloatArray_loop(buffer, length, position, result) ==
  IF ~((Len(buffer) - position) > SizeofInt)
  THEN [ position |-> position, result |-> result, raised |-> "" ]
  ELSE
    LET key == ToInt32(buffer, position)
        position_key == position + SizeofInt
        read_length ==
          (0 = length) /\ ((Len(buffer) - position_key) > SizeofInt)
        element_length ==
          IF read_length THEN ToInt32(buffer, position_key) ELSE length
        position_length ==
          IF read_length THEN position_key + SizeofInt ELSE position_key
    IN IF (element_length > 0)
          /\ ((Len(buffer) - position_length)
                >= FloatBytes(element_length))
       THEN IF element_length > FloatsLeft(buffer, position_length)
            THEN [ position |-> position_length
                                  + SizeofFloat
                                      * FloatsLeft(buffer, position_length),
                   result |-> result,
                   raised |-> "BufferUnderflowException" ]
            ELSE JavaIdToFloatArray_loop(
                   buffer, length,
                   position_length + element_length * SizeofFloat,
                   MapPut(result, key,
                          ReadFloats(buffer, position_length,
                                     element_length)))
       ELSE JavaIdToFloatArray_loop(buffer, length, position_length,
                                    result)

\* what a Java decoder hands back, and the position it leaves the
\* ByteBuffer at
JavaReturned(map, position) ==
  [ map |-> map, null |-> FALSE, raised |-> "", position |-> position ]

\* Java Format.IdToFloatArray; a ByteBuffer is its bytes and its position,
\* and the relative get methods read at the position and advance it
JavaIdToFloatArray(buffer, length) ==
  LET end == JavaIdToFloatArray_loop(buffer.array, length, buffer.position,
                                     EmptyMap)
  IN IF end.raised # ""
     THEN [ map |-> EmptyMap, null |-> FALSE, raised |-> end.raised,
            position |-> end.position ]
     ELSE IF end.position # Len(buffer.array)
     THEN JavaReturned(EmptyMap, end.position)
     ELSE JavaReturned(end.result, end.position)

\* Java Format.IdToShortArray: the while loop
RECURSIVE JavaIdToShortArray_loop(_, _, _, _)
JavaIdToShortArray_loop(buffer, length, position, result) ==
  LET element_size == SizeofInt + SizeofShort * length
  IN IF ~(element_size <= (Len(buffer) - position))
     THEN [ position |-> position, result |-> result ]
     ELSE JavaIdToShortArray_loop(
            buffer, length, position + element_size,
            MapPut(result, ToInt32(buffer, position),
                   ReadShorts(buffer, position + SizeofInt, length)))

\* Java Format.IdToShortArray
JavaIdToShortArray(buffer, length) ==
  LET end == JavaIdToShortArray_loop(buffer.array, length, buffer.position,
                                     EmptyMap)
  IN IF end.position # Len(buffer.array)
     THEN JavaReturned(EmptyMap, end.position)
     ELSE JavaReturned(end.result, end.position)

\* Java Format.Configurable, Preview, Sensor and Raw after the call of
\* IdToFloatArray / IdToShortArray returned map
JavaElements(map, length) ==
  IF map.raised # "" THEN map
  ELSE IF map.map # EmptyMap
  THEN JavaReturned([ k \in DOMAIN map.map |->
                        Element(map.map[k], length) ],
                    map.position)
  ELSE JavaReturned(EmptyMap, map.position)

JavaConfigurable(buffer) ==
  JavaElements(JavaIdToFloatArray(buffer, ConfigurableElement_Length),
               ConfigurableElement_Length)

JavaPreview(buffer) ==
  JavaElements(JavaIdToFloatArray(buffer, PreviewElement_Length),
               PreviewElement_Length)

JavaSensor(buffer) ==
  JavaElements(JavaIdToFloatArray(buffer, SensorElement_Length),
               SensorElement_Length)

JavaRaw(buffer) ==
  JavaElements(JavaIdToShortArray(buffer, RawElement_Length),
               RawElement_Length)

(***************************************************************************)
(* The buffers the decoders are given: records as the data service packs   *)
(* them, little-endian, followed by stray bytes.                           *)
(***************************************************************************)
MaxRecords == 2
MaxM == 3
MaxConfigurableStray == 7

Shapes == { "Configurable", "Preview", "Sensor", "Raw" }
Languages == { "cs", "java" }
RecordIds == { 5, 7, -2 }
RecordSeeds == { 1, 2 }

\* the i-th value of a record: floats from 1.0f (3F800000) or from -1.0f
\* (BF800000) on, shorts from 256 up or from -1 down
FloatValue(seed, i) ==
  IF seed = 1 THEN 1065353216 + i ELSE (-1082130432) + i

ShortValue(seed, i) == IF seed = 1 THEN 256 + i ELSE (-1) - i

\* the four bytes of a 32 bit value, least significant byte first
Int32Bytes(n) ==
  << n % 256, (n \div 256) % 256, (n \div 65536) % 256,
     (n \div 16777216) % 256 >>

\* the two bytes of a 16 bit value, least significant byte first
Int16Bytes(n) == << n % 256, (n \div 256) % 256 >>

\* the records of a message of the shape: an id and its values
Records(shape) ==
  IF shape = "Configurable"
  THEN { [ id |-> id, value |-> [ i \in 1..m |-> FloatValue(1, i) ] ] :
           id \in RecordIds, m \in 0..MaxM }
  ELSE IF shape = "Raw"
  THEN { [ id |-> id,
           value |-> [ i \in 1..RawElement_Length |-> ShortValue(s, i) ] ] :
           id \in RecordIds, s \in RecordSeeds }
  ELSE { [ id |-> id,
           value |-> [ i \in 1..(IF shape = "Preview"
                                 THEN PreviewElement_Length
                                 ELSE SensorElement_Length) |->
                       FloatValue(s, i) ] ] :
           id \in RecordIds, s \in RecordSeeds }

RecordSeqs(shape) ==
  UNION { [ 1..k -> Records(shape) ] : k \in 0..MaxRecords }

RECURSIVE PackValues(_, _)
PackValues(shape, value) ==
  IF value = <<>> THEN <<>>
  ELSE (IF shape = "Raw" THEN Int16Bytes(Head(value))
                         ELSE Int32Bytes(Head(value)))
         \o PackValues(shape, Tail(value))

\* one record on the wire; a Configurable record carries its length
PackRecord(shape, r) ==
  Int32Bytes(r.id)
    \o (IF shape = "Configurable" THEN Int32Bytes(Len(r.value)) ELSE <<>>)
    \o PackValues(shape, r.value)

RECURSIVE Pack(_, _)
Pack(shape, records) ==
  IF records = <<>> THEN <<>>
  ELSE PackRecord(shape, Head(records)) \o Pack(shape, Tail(records))

\* the size in bytes of one element of a fixed-width shape
ElementSize(shape) ==
  IF shape = "Preview" THEN SizeofInt + SizeofFloat * PreviewElement_Length
  ELSE IF shape = "Sensor"
  THEN SizeofInt + SizeofFloat * SensorElement_Length
  ELSE SizeofInt + SizeofShort * RawElement_Length

\* stray bytes after the records: fewer than one element
StrayLengths(shape) ==
  IF shape = "Configurable" THEN 0..MaxConfigurableStray
  ELSE 0..(ElementSize(shape) - 1)

\* the element lengths M that a forged Configurable record declares:
\* negative, more than the buffer holds, and so large that M * 4 is not a
\* 32 bit signed value (2^29, 2^30, 2^30 + 1)
DeclaredLengths == { -1, 3, 536870912, 1073741824, 1073741825 }

\* the most floats that follow the declared length of a forged record
MaxForgedFloats == 1

\* a Configurable record that declares m values and carries k
ForgedRecord(m, k) ==
  Int32Bytes(9) \o Int32Bytes(m)
    \o PackValues("Configurable", [ i \in 1..k |-> FloatValue(1, i) ])

\* what follows the records of a buffer: stray bytes, or for a Configurable
\* message a forged record
Strays(shape) ==
  { [ i \in 1..n |-> i ] : n \in StrayLengths(shape) }
    \cup (IF shape = "Configurable"
          THEN { ForgedRecord(m, k) :
                   m \in DeclaredLengths, k \in 0..MaxForgedFloats }
          ELSE {})

ClientVars ==
  << use_exceptions, life, m_socket, m_description, m_xml_string,
     m_error_string, m_nextMessage, m_time_out_second,
     m_time_out_second_send, sock_state, so_rcvtimeo, so_sndtimeo,
     wire, peer_sent, peer_bad, peer_closed, link, sent, call, ret,
     received, delivered, io_fault, nraised >>

\* an application holds a message of some shape and has not decoded it yet
InitFormat ==
  /\ ClientInit
  /\ use_exceptions
  /\ \E lang \in Languages, shape \in Shapes :
       \E records \in RecordSeqs(shape), stray \in Strays(shape),
          large_arrays \in BOOLEAN :
         LET packed == Pack(shape, records) \o stray
         IN /\ large_arrays
                 => /\ lang = "cs"
                    /\ \E m \in DeclaredLengths, k \in 0..MaxForgedFloats :
                         m >= 536870912 /\ stray = ForgedRecord(m, k)
            /\ decode =
                     [ lang |-> lang, shape |-> shape, records |-> records,
                       stray |-> stray,
                       buffer |-> SubSeq(packed, 1, Len(packed)),
                       large_arrays |-> large_arrays,
                       position |-> 0, calls |-> 0,
                       op |-> "none", result |-> EmptyMap, null |-> FALSE,
                       raised |-> "", previous |-> Returned(EmptyMap) ]
  /\ element = NoElement
  /\ device = NoDevice
  /\ file = NoFile
  /\ console = NoConsole
  /\ rotation = NoRotation

\* the ByteBuffer the application holds
ByteBuffer == [ array |-> decode.buffer, position |-> decode.position ]

\* the decoder op returned r
Decoded(op, r) ==
  /\ decode' = [ decode EXCEPT
                   !.op = op, !.calls = @ + 1,
                   !.previous = [ map |-> decode.result,
                                  null |-> decode.null,
                                  raised |-> decode.raised ],
                   !.result = r.map, !.null = r.null, !.raised = r.raised,
                   !.position = IF decode.lang = "java" THEN r.position
                                                        ELSE @ ]
  /\ UNCHANGED << ClientVars, device, file, console, rotation, element >>

\* Format.Configurable(buffer)
Configurable ==
  /\ decode.op = "none" /\ decode.shape = "Configurable"
  /\ Decoded("Configurable",
             IF decode.lang = "cs" THEN CsConfigurable(decode.buffer)
                                   ELSE JavaConfigurable(ByteBuffer))

\* Format.Preview(buffer)
Preview ==
  /\ decode.op = "none" /\ decode.shape = "Preview"
  /\ Decoded("Preview",
             IF decode.lang = "cs" THEN CsPreview(decode.buffer)
                                   ELSE JavaPreview(ByteBuffer))

\* Format.Sensor(buffer)
Sensor ==
  /\ decode.op = "none" /\ decode.shape = "Sensor"
  /\ Decoded("Sensor",
             IF decode.lang = "cs" THEN CsSensor(decode.buffer)
                                   ELSE JavaSensor(ByteBuffer))

\* Format.Raw(buffer)
Raw ==
  /\ decode.op = "none" /\ decode.shape = "Raw"
  /\ Decoded("Raw",
             IF decode.lang = "cs" THEN CsRaw(decode.buffer)
                                   ELSE JavaRaw(ByteBuffer))

NextFormat ==
  \/ Configurable
  \/ Preview
  \/ Sensor
  \/ Raw

SpecFormat == InitFormat /\ [][NextFormat]_vars


(***************************************************************************)
(* The decoders against their contract.                                    *)
(***************************************************************************)
FixedWidthOps == { "Preview", "Sensor", "Raw" }

\* the decoder returned a map that holds exactly the records of the buffer:
\* one entry per record, under its id, with its values in order
DecodedAllRecords ==
  /\ decode.raised = ""
  /\ ~decode.null
  /\ Cardinality(DOMAIN decode.result) = Len(decode.records)
  /\ \A i \in 1..Len(decode.records) :
       /\ decode.records[i].id \in DOMAIN decode.result
       /\ decode.result[decode.records[i].id] = decode.records[i].value

DistinctIds ==
  \A i, j \in 1..Len(decode.records) :
    decode.records[i].id = decode.records[j].id => i = j

\* C18: a buffer that is k >= 1 well-formed fixed-width records (N = 9 for
\* Sensor and Raw, 14 for Preview) decodes to a map of exactly k entries,
\* keyed by the ids of the buffer, each with the N values of its record in
\* order -- as stated, for every such buffer
C18_FixedWidthDecode ==
  ( /\ decode.op \in FixedWidthOps
    /\ Len(decode.records) >= 1
    /\ decode.stray = <<>> )
  => DecodedAllRecords

\* C18: the same for the buffers whose k records have pairwise distinct ids
C18_FixedWidthDecodeDistinctIds ==
  ( /\ decode.op \in FixedWidthOps
    /\ Len(decode.records) >= 1
    /\ decode.stray = <<>>
    /\ DistinctIds )
  => DecodedAllRecords

C18_Witness ==
  /\ decode.op = "Preview"
  /\ decode.lang = "cs"
  /\ decode.stray = <<>>
  /\ Len(decode.records) = 2
  /\ decode.records[1].id = -2
  /\ decode.records[2].id = 5
  /\ Len(decode.buffer) = 2 * ElementSize("Preview")
  /\ DOMAIN decode.result = { -2, 5 }
  /\ decode.result[5] = [ i \in 1..PreviewElement_Length |->
                            FloatValue(2, i) ]


\* C19: invalid input decodes to nothing, not to an error: for the empty
\* buffer and for every buffer whose length is not a multiple of the element
\* size, Preview, Sensor and Raw return an empty or absent map and raise no
\* exception
C19_InvalidDecodesToNothing ==
  ( /\ decode.op \in FixedWidthOps
    /\ \/ decode.buffer = <<>>
       \/ Len(decode.buffer) % ElementSize(decode.shape) # 0 )
  => /\ decode.raised = ""
     /\ Cardinality(DOMAIN decode.result) = 0

\* every record of the buffer carries at least one value
NoEmptyRecord ==
  \A i \in 1..Len(decode.records) : Len(decode.records[i].value) >= 1

MaxSize == 3

ElementLangs == { "cs", "java" }
FixedKinds == { "Preview", "Sensor", "Raw" }

\* PreviewElement.Length, SensorElement.Length, RawElement.Length,
\* ConfigurableElement.Length
ElementLength(kind) ==
  IF kind = "Preview" THEN PreviewElement_Length
  ELSE IF kind = "Sensor" THEN SensorElement_Length
  ELSE IF kind = "Raw" THEN RawElement_Length
  ELSE ConfigurableElement_Length

Zeros(length) == [ i \in 1..length |-> 0 ]

\* Element(data, length): reads the length of data, and keeps data only if
\* it has the length of the format (or the format has no fixed length)
Element_new(e, length) ==
  IF e.null
  THEN [ e EXCEPT !.pc = "raised",
                  !.raised = IF e.lang = "cs" THEN "NullReferenceException"
                                              ELSE "NullPointerException" ]
  ELSE IF (Len(e.data) = length) \/ (0 = length)
  THEN [ e EXCEPT !.pc = "built", !.m_data_null = FALSE, !.m_data = e.data ]
  ELSE [ e EXCEPT !.pc = "built" ]

\* what an accessor hands back
Accessed(e, op, start, length, result, raised) ==
  [ e EXCEPT !.op = op, !.start = start, !.length = length,
             !.result = result, !.raised = raised ]

\* C# Element.getData(start, length): new T[length], then Array.Copy of
\* m_data from start if m_data is there and long enough
CsGetData(e, op, start, length) ==
  IF length < 0 THEN Accessed(e, op, start, length, <<>>, "OverflowException")
  ELSE IF ~e.m_data_null /\ (start + length <= Len(e.m_data))
  THEN IF start < 0
       THEN Accessed(e, op, start, length, <<>>,
                     "ArgumentOutOfRangeException")
       ELSE Accessed(e, op, start, length,
                     [ i \in 1..length |-> e.m_data[start + i] ], "")
  ELSE Accessed(e, op, start, length, Zeros(length), "")

\* Java Element.getFloatData(base, length) and getShortData(base, length):
\* new float[length], then data.get(base + i) for each i if data is there
\* and long enough
JavaGetData(e, op, base, length) ==
  IF length < 0
  THEN Accessed(e, op, base, length, <<>>, "NegativeArraySizeException")
  ELSE IF ~e.m_data_null /\ (base + length <= Len(e.m_data))
  THEN IF base < 0 /\ length > 0
       THEN Accessed(e, op, base, length, <<>>,
                     "ArrayIndexOutOfBoundsException")
       ELSE Accessed(e, op, base, length,
                     [ i \in 1..length |-> e.m_data[base + i] ], "")
  ELSE Accessed(e, op, base, length, Zeros(length), "")

getData(e, op, start, length) ==
  IF e.lang = "cs" THEN CsGetData(e, op, start, length)
                   ELSE JavaGetData(e, op, start, length)

PreviewElement_getEuler(e) == getData(e, "getEuler", 8, 3)

PreviewElement_getQuaternion(e, local) ==
  IF local THEN getData(e, "getQuaternion(true)", 4, 4)
           ELSE getData(e, "getQuaternion(false)", 0, 4)

PreviewElement_getAccelerate(e) == getData(e, "getAccelerate", 11, 3)

\* SensorElement.getAccelerometer and RawElement.getAccelerometer
Element_getAccelerometer(e) == getData(e, "getAccelerometer", 0, 3)

\* the gyroscope read from the offset of the magnetometer
Element_getGyroscope_at_3(e) == getData(e, "getGyroscope", 3, 3)

\* SensorElement.getGyroscope and RawElement.getGyroscope
Element_getGyroscope(e) == getData(e, "getGyroscope", 6, 3)

\* SensorElement.getMagnetometer and RawElement.getMagnetometer
Element_getMagnetometer(e) == getData(e, "getMagnetometer", 3, 3)

\* ConfigurableElement.value(index): access()[index], access().get(index)
ConfigurableElement_value(e, index) ==
  IF e.m_data_null
  THEN Accessed(e, "value", index, 1, <<>>,
                IF e.lang = "cs" THEN "NullReferenceException"
                                 ELSE "NullPointerException")
  ELSE IF index < 0 \/ index >= Len(e.m_data)
  THEN Accessed(e, "value", index, 1, <<>>,
                IF e.lang = "cs" THEN "IndexOutOfRangeException"
                                 ELSE "ArrayIndexOutOfBoundsException")
  ELSE Accessed(e, "value", index, 1, << e.m_data[index + 1] >>, "")

\* ConfigurableElement.size(): access().Length, access().size()
ConfigurableElement_size(e) ==
  IF e.m_data_null
  THEN Accessed(e, "size", 0, 0, <<>>,
                IF e.lang = "cs" THEN "NullReferenceException"
                                 ELSE "NullPointerException")
  ELSE Accessed(e, "size", 0, 0, << Len(e.m_data) >>, "")

\* C# ConfigurableElement.getRange(start, length)
ConfigurableElement_getRange(e, start, length) ==
  CsGetData(e, "getRange", start, length)

\* the arrays an application may hand to a constructor: of every length up
\* to one more than the format's, no value zero
ElementValue(seed, i) == IF seed = 1 THEN 100 + i ELSE (-100) - i

ElementArrays(kind) ==
  { [ i \in 1..n |-> ElementValue(s, i) ] :
      n \in 0..(IF kind = "Configurable" THEN MaxSize
                                         ELSE ElementLength(kind) + 1),
      s \in RecordSeeds }

\* an application is about to construct an element from a reference
InitElement ==
  /\ ClientInit
  /\ use_exceptions
  /\ decode = NoDecode
  /\ device = NoDevice
  /\ file = NoFile
  /\ console = NoConsole
  /\ rotation = NoRotation
  /\ \E lang \in ElementLangs, kind \in Shapes :
       \/ element = [ NoElement EXCEPT !.lang = lang, !.kind = kind,
                                       !.pc = "new", !.null = TRUE ]
       \/ \E data \in ElementArrays(kind) :
            element = [ NoElement EXCEPT !.lang = lang, !.kind = kind,
                                         !.pc = "new", !.data = data ]

Stored(e) ==
  /\ element' = e
  /\ UNCHANGED << ClientVars, device, file, console, rotation, decode >>

\* new PreviewElement(data), new SensorElement(data), new RawElement(data),
\* new ConfigurableElement(data)
NewElement ==
  /\ element.pc = "new"
  /\ Stored(Element_new(element, ElementLength(element.kind)))

GetEuler ==
  /\ element.pc = "built" /\ element.kind = "Preview"
  /\ Stored(PreviewElement_getEuler(element))

GetQuaternion(local) ==
  /\ element.pc = "built" /\ element.kind = "Preview"
  /\ Stored(PreviewElement_getQuaternion(element, local))

GetAccelerate ==
  /\ element.pc = "built" /\ element.kind = "Preview"
  /\ Stored(PreviewElement_getAccelerate(element))

GetAccelerometer ==
  /\ element.pc = "built" /\ element.kind \in { "Sensor", "Raw" }
  /\ Stored(Element_getAccelerometer(element))

GetGyroscope ==
  /\ element.pc = "built" /\ element.kind \in { "Sensor", "Raw" }
  /\ Stored(Element_getGyroscope(element))

GetMagnetometer ==
  /\ element.pc = "built" /\ element.kind \in { "Sensor", "Raw" }
  /\ Stored(Element_getMagnetometer(element))

Value(index) ==
  /\ element.pc = "built" /\ element.kind = "Configurable"
  /\ Stored(ConfigurableElement_value(element, index))

Size ==
  /\ element.pc = "built" /\ element.kind = "Configurable"
  /\ Stored(ConfigurableElement_size(element))

GetRange(start, length) ==
  /\ element.pc = "built" /\ element.kind = "Configurable"
  /\ element.lang = "cs"
  /\ Stored(ConfigurableElement_getRange(element, start, length))

NextElement ==
  \/ NewElement
  \/ GetEuler
  \/ \E local \in BOOLEAN : GetQuaternion(local)
  \/ GetAccelerate
  \/ GetAccelerometer
  \/ GetGyroscope
  \/ GetMagnetometer
  \/ \E index \in (-1)..(MaxSize + 1) : Value(index)
  \/ Size
  \/ \E start \in (-1)..(MaxSize + 1), length \in 0..(MaxSize + 1) :
       GetRange(start, length)

SpecElement == InitElement /\ [][NextElement]_vars


OffsetAccessors ==
  { "getEuler", "getQuaternion(true)", "getQuaternion(false)",
    "getAccelerate", "getAccelerometer", "getGyroscope",
    "getMagnetometer" }

\* C21: for a Preview, Sensor or Raw record constructed from a backing array
\* that is absent or whose length differs from the format's N, nothing
\* raises an error and every offset-based accessor returns an array of the
\* documented length filled with zeros
C21_AccessorZeroFill ==
  ( /\ element.kind \in FixedKinds
    /\ element.pc # "new"
    /\ element.null \/ Len(element.data) # ElementLength(element.kind) )
  => /\ element.raised = ""
     /\ element.op \in OffsetAccessors
          => element.result = Zeros(element.length)

\* C22: value(index) and range(start, length) of a Configurable record of
\* size n never raise: they return the stored values when the index or range
\* lies in [0, n), and zero / a zero-filled array of length elements when it
\* does not or when the backing data is absent
C22_ConfigurableAccessorsNeverFail ==
  ( /\ element.kind = "Configurable"
    /\ element.pc # "new"
    /\ element.op \in { "none", "value", "getRange" } )
  => /\ element.raised = ""
     /\ element.op \in { "value", "getRange" }
          => element.result =
               IF /\ ~element.null
                  /\ element.start >= 0
                  /\ element.start + element.length <= Len(element.data)
               THEN SubSeq(element.data, element.start + 1,
                           element.start + element.length)
               ELSE Zeros(element.length)

\* C23: on a valid record Sensor and Raw return accelerometer = values[0..2],
\* magnetometer = values[3..5], gyroscope = values[6..8], and Preview returns
\* quaternion = values[0..3] (global) or values[4..7] (local), euler =
\* values[8..10], acceleration = values[11..13]
C23_AccessorOffsets ==
  ( /\ element.kind \in FixedKinds
    /\ ~element.null
    /\ Len(element.data) = ElementLength(element.kind)
    /\ element.op \in OffsetAccessors )
  => /\ element.raised = ""
     /\ element.op = "getAccelerometer"
          => element.result = SubSeq(element.data, 1, 3)
     /\ element.op = "getMagnetometer"
          => element.result = SubSeq(element.data, 4, 6)
     /\ element.op = "getGyroscope"
          => element.result = SubSeq(element.data, 7, 9)
     /\ element.op = "getQuaternion(false)"
          => element.result = SubSeq(element.data, 1, 4)
     /\ element.op = "getQuaternion(true)"
          => element.result = SubSeq(element.data, 5, 8)
     /\ element.op = "getEuler"
          => element.result = SubSeq(element.data, 9, 11)
     /\ element.op = "getAccelerate"
          => element.result = SubSeq(element.data, 12, 14)

C23_Witness ==
  /\ element.kind = "Raw"
  /\ element.lang = "java"
  /\ Len(element.data) = RawElement_Length
  /\ element.op = "getGyroscope"
  /\ element.result = << ElementValue(2, 7), ElementValue(2, 8),
                         ElementValue(2, 9) >>


(***************************************************************************)
(* quaternion_to_R3_rotation (Format.cpp, Format.cs, Format.java), in      *)
(* exact arithmetic: a real number is written as a fraction in lowest      *)
(* terms, [n |-> numerator, d |-> denominator > 0].                        *)
(***************************************************************************)
MaxQ == 3

Abs(x) == IF x < 0 THEN 0 - x ELSE x

RECURSIVE GCD(_, _)
GCD(x, y) == IF y = 0 THEN x ELSE GCD(y, x % y)

\* the fraction n / d, d # 0, in lowest terms
Rat(n, d) ==
  LET g == GCD(Abs(n), Abs(d))
  IN IF d < 0 THEN [ n |-> (0 - n) \div g, d |-> (0 - d) \div g ]
              ELSE [ n |-> n \div g, d |-> d \div g ]

RatZero == [ n |-> 0, d |-> 1 ]
RatOne == [ n |-> 1, d |-> 1 ]
RatTwo == [ n |-> 2, d |-> 1 ]

RatNeg(x) == [ n |-> 0 - x.n, d |-> x.d ]

RatAdd(x, y) ==
  LET l == (x.d \div GCD(x.d, y.d)) * y.d
  IN Rat(x.n * (l \div x.d) + y.n * (l \div y.d), l)

RatSub(x, y) == RatAdd(x, RatNeg(y))

RatMul(x, y) ==
  LET g == GCD(Abs(x.n), y.d)
      h == GCD(Abs(y.n), x.d)
  IN Rat((x.n \div g) * (y.n \div h), (x.d \div h) * (y.d \div g))

\* x / y, y # 0
RatDiv(x, y) ==
  RatMul(x, IF y.n < 0 THEN [ n |-> 0 - y.d, d |-> 0 - y.n ]
                       ELSE [ n |-> y.d, d |-> y.n ])

RatGreater(x, y) == x.n * y.d > y.n * x.d
RatGreaterEqual(x, y) == x.n * y.d >= y.n * x.d

\* the literal 1e-6
NormThreshold == [ n |-> 1, d |-> 1000000 ]

\* the 4-by-4 identity matrix, row after row
IdentityMatrix ==
  [ i \in 1..16 |-> IF (i - 1) % 5 = 0 THEN RatOne ELSE RatZero ]

\* the test of the squared norm with >= for >
norm_above_threshold_or_equal(norme_carre) ==
  RatGreaterEqual(norme_carre, NormThreshold)

\* norme_carre > 1e-6
norm_above_threshold(norme_carre) ==
  RatGreater(norme_carre, NormThreshold)

\* the second row with the sign of the first row's xy term
rotation_matrix_same_sign(a, b, c, d) ==
  LET aa == RatMul(a, a)
      ab == RatMul(a, b)
      ac == RatMul(a, c)
      ad == RatMul(a, d)
      bb == RatMul(b, b)
      bc == RatMul(b, c)
      bd == RatMul(b, d)
      cc == RatMul(c, c)
      cd == RatMul(c, d)
      dd == RatMul(d, d)
      norme_carre == RatAdd(RatAdd(RatAdd(aa, bb), cc), dd)
  IN IF norm_above_threshold(norme_carre)
     THEN [ IdentityMatrix EXCEPT
       ![1] = RatDiv(RatSub(RatSub(RatAdd(aa, bb), cc), dd), norme_carre),
       ![2] = RatDiv(RatMul(RatTwo, RatAdd(RatNeg(ad), bc)), norme_carre),
       ![3] = RatDiv(RatMul(RatTwo, RatAdd(ac, bd)), norme_carre),
       ![5] = RatDiv(RatMul(RatTwo, RatAdd(RatNeg(ad), bc)), norme_carre),
       ![6] = RatDiv(RatSub(RatAdd(RatSub(aa, bb), cc), dd), norme_carre),
       ![7] = RatDiv(RatMul(RatTwo, RatAdd(RatNeg(ab), cd)), norme_carre),
       ![9] = RatDiv(RatMul(RatTwo, RatAdd(RatNeg(ac), bd)), norme_carre),
       ![10] = RatDiv(RatMul(RatTwo, RatAdd(ab, cd)), norme_carre),
       ![11] = RatDiv(RatAdd(RatSub(RatSub(aa, bb), cc), dd), norme_carre) ]
     ELSE IdentityMatrix

\* quaternion_to_R3_rotation for q = (a, b, c, d): result[0..15] is written
\* as the sequence 1..16
rotation_matrix(a, b, c, d) ==
  LET aa == RatMul(a, a)
      ab == RatMul(a, b)
      ac == RatMul(a, c)
      ad == RatMul(a, d)
      bb == RatMul(b, b)
      bc == RatMul(b, c)
      bd == RatMul(b, d)
      cc == RatMul(c, c)
      cd == RatMul(c, d)
      dd == RatMul(d, d)
      norme_carre == RatAdd(RatAdd(RatAdd(aa, bb), cc), dd)
  IN IF norm_above_threshold(norme_carre)
     THEN [ IdentityMatrix EXCEPT
       ![1] = RatDiv(RatSub(RatSub(RatAdd(aa, bb), cc), dd), norme_carre),
       ![2] = RatDiv(RatMul(RatTwo, RatAdd(RatNeg(ad), bc)), norme_carre),
       ![3] = RatDiv(RatMul(RatTwo, RatAdd(ac, bd)), norme_carre),
       ![5] = RatDiv(RatMul(RatTwo, RatAdd(ad, bc)), norme_carre),
       ![6] = RatDiv(RatSub(RatAdd(RatSub(aa, bb), cc), dd), norme_carre),
       ![7] = RatDiv(RatMul(RatTwo, RatAdd(RatNeg(ab), cd)), norme_carre),
       ![9] = RatDiv(RatMul(RatTwo, RatAdd(RatNeg(ac), bd)), norme_carre),
       ![10] = RatDiv(RatMul(RatTwo, RatAdd(ab, cd)), norme_carre),
       ![11] = RatDiv(RatAdd(RatSub(RatSub(aa, bb), cc), dd), norme_carre) ]
     ELSE IdentityMatrix

\* quaternion_to_R3_rotation(q): C++ answers a q that has not 4 elements
\* with the identity, C# and Java with null
quaternion_to_R3_rotation(r) ==
  IF 4 # Len(r.q)
  THEN IF r.lang = "cpp"
       THEN [ r EXCEPT !.pc = "done", !.result = IdentityMatrix ]
       ELSE [ r EXCEPT !.pc = "done", !.null = TRUE ]
  ELSE [ r EXCEPT !.pc = "done",
                  !.result = rotation_matrix(Rat(r.q[1], r.scale),
                                             Rat(r.q[2], r.scale),
                                             Rat(r.q[3], r.scale),
                                             Rat(r.q[4], r.scale)) ]

\* the quaternions given: every component a multiple of 1 / scale
RotationLangs == { "cpp", "cs", "java" }
QuaternionScales == { 1, 2, 2000 }
QuaternionParts == (0 - MaxQ)..MaxQ
Quaternions ==
  { << a, b, c, d >> : a \in QuaternionParts, b \in QuaternionParts,
                       c \in QuaternionParts, d \in QuaternionParts }
    \cup { <<>>, << 1, 0, 0 >> }

InitRotation ==
  /\ ClientInit
  /\ use_exceptions
  /\ decode = NoDecode
  /\ element = NoElement
  /\ device = NoDevice
  /\ file = NoFile
  /\ console = NoConsole
  /\ \E lang \in RotationLangs, scale \in QuaternionScales,
        q \in Quaternions :
       rotation = [ NoRotation EXCEPT !.lang = lang, !.q = q,
                                      !.scale = scale, !.pc = "call" ]

\* PreviewElement.getMatrix: quaternion_to_R3_rotation(getQuaternion(local))
GetMatrix ==
  /\ rotation.pc = "call"
  /\ rotation' = quaternion_to_R3_rotation(rotation)
  /\ UNCHANGED << ClientVars, device, file, console, decode, element >>

NextRotation == GetMatrix

SpecRotation == InitRotation /\ [][NextRotation]_vars

\* the squared norm of the quaternion given, times scale * scale
NormSquaredScaled ==
  rotation.q[1] * rotation.q[1] + rotation.q[2] * rotation.q[2]
    + rotation.q[3] * rotation.q[3] + rotation.q[4] * rotation.q[4]

\* w^2 + x^2 + y^2 + z^2 <= 1e-6
NormAtMostThreshold ==
  NormSquaredScaled * 1000000 <= rotation.scale * rotation.scale

\* C24: rotation_matrix returns the 4x4 identity matrix for the zero
\* quaternion and for every quaternion whose squared norm is <= 1e-6
C24_QuaternionIdentityGuard ==
  ( /\ rotation.pc = "done"
    /\ Len(rotation.q) = 4
    /\ NormAtMostThreshold )
  => /\ ~rotation.null
     /\ rotation.result = IdentityMatrix

\* a quaternion of squared norm exactly 1e-6: (1, 1, 1, 1) / 2000
C24_Witness ==
  /\ rotation.pc = "done"
  /\ rotation.lang = "cs"
  /\ rotation.q = << 1, 1, 1, 1 >>
  /\ rotation.scale = 2000
  /\ rotation.result = IdentityMatrix

\* entry (row, column) of the upper-left 3x3 block, rows and columns 1..3
Entry(row, column) == rotation.result[4 * (row - 1) + column]

RowDot(i, j) ==
  RatAdd(RatAdd(RatMul(Entry(i, 1), Entry(j, 1)),
                RatMul(Entry(i, 2), Entry(j, 2))),
         RatMul(Entry(i, 3), Entry(j, 3)))

ColumnDot(i, j) ==
  RatAdd(RatAdd(RatMul(Entry(1, i), Entry(1, j)),
                RatMul(Entry(2, i), Entry(2, j))),
         RatMul(Entry(3, i), Entry(3, j)))

\* C25: for every quaternion with squared norm above the threshold,
\* normalised or not, the upper-left 3x3 block of the matrix is orthonormal:
\* rows and columns of unit length, distinct rows orthogonal, distinct
\* columns orthogonal
C25_QuaternionOrthonormal ==
  ( /\ rotation.pc = "done"
    /\ Len(rotation.q) = 4
    /\ ~NormAtMostThreshold )
  => /\ ~rotation.null
     /\ \A i, j \in 1..3 :
          /\ RowDot(i, j) = (IF i = j THEN RatOne ELSE RatZero)
          /\ ColumnDot(i, j) = (IF i = j THEN RatOne ELSE RatZero)

\* a quaternion that is not normalised and has no zero component
C25_Witness ==
  /\ rotation.pc = "done"
  /\ rotation.lang = "java"
  /\ rotation.q = << 1, 2, -1, 3 >>
  /\ rotation.scale = 2
  /\ rotation.result[1] = Rat(-5, 15)
  /\ rotation.result[2] = Rat(-10, 15)


\* C26: getXMLString reads m_xml_string in any connection state, and
\* m_xml_string is the most recent control message that waitForData or
\* readData observed: it changes only when a newly read control message
\* replaces it whole (never appended to it), also across close()
C26_LastControlMessage ==
  [][ m_xml_string' # m_xml_string
        => /\ is_xml(m_xml_string')
           /\ received' # <<>>
           /\ m_xml_string' = received'[Len(received')] ]_vars


\* C28: a connection is never re-opened: once isConnected() is false on a
\* constructed client (after close, peer shutdown or a hard error), no public
\* operation makes it true again
C28_NeverReopened ==
  [][ (life # "new" /\ m_socket <= 0) => m_socket' <= 0 ]_vars

C28_Witness ==
  /\ life = "live"
  /\ sock_state = "closed"
  /\ m_socket <= 0
  /\ ret.op = "close"
  /\ ~ret.open


(***************************************************************************)
(* An application that decodes the buffer it holds a second time.          *)
(***************************************************************************)
\* the decoder of the shape of the buffer, applied to the buffer as it is
DecodeAgain ==
  /\ decode.calls = 1
  /\ Decoded(decode.op,
             IF decode.shape = "Configurable"
             THEN IF decode.lang = "cs" THEN CsConfigurable(decode.buffer)
                                        ELSE JavaConfigurable(ByteBuffer)
             ELSE IF decode.shape = "Preview"
             THEN IF decode.lang = "cs" THEN CsPreview(decode.buffer)
                                        ELSE JavaPreview(ByteBuffer)
             ELSE IF decode.shape = "Sensor"
             THEN IF decode.lang = "cs" THEN CsSensor(decode.buffer)
                                        ELSE JavaSensor(ByteBuffer)
             ELSE IF decode.lang = "cs" THEN CsRaw(decode.buffer)
                                        ELSE JavaRaw(ByteBuffer))

NextFormatTwice ==
  \/ Configurable
  \/ Preview
  \/ Sensor
  \/ Raw
  \/ DecodeAgain

SpecFormatTwice == InitFormat /\ [][NextFormatTwice]_vars

\* C27: decoding is a deterministic, side-effect-free function of the buffer
\* contents: it leaves the read position of its input buffer where it was,
\* and decoding the same buffer object twice yields two equal maps
C27_DecodeTwice ==
  /\ decode.calls >= 1 => decode.position = 0
  /\ decode.calls = 2
       => /\ decode.result = decode.previous.map
          /\ decode.null = decode.previous.null
          /\ decode.raised = decode.previous.raised


(***************************************************************************)
(* LuaConsole.SendChunk (LuaConsole.hpp, LuaConsole.cs, LuaConsole.java).  *)
(* The calls of client.writeData and client.readData are taken by what     *)
(* they return.  A string is the sequence of its character codes; the null *)
(* string of Java is written <<>> like the empty one.                      *)
(***************************************************************************)
MaxOutput == 2

\* enum ResultCode { Success = 0, Failure = 1, Continue = 2 }
ResultCode(code) ==
  IF code = 0 THEN "Success" ELSE IF code = 1 THEN "Failure" ELSE "Continue"

\* char code = data[0]: the byte as a signed char
SignedChar(byte) == IF byte >= 128 THEN byte - 256 ELSE byte

\* Encoding.ASCII.GetString: a byte that is not ASCII decodes to '?'
ASCII_GetString(bytes) ==
  [ i \in 1..Len(bytes) |-> IF bytes[i] >= 128 THEN 63 ELSE bytes[i] ]

\* new String(bytes, offset, length) in the default charset of the platform:
\* in UTF-8 a byte that starts no valid sequence decodes to U+FFFD
Java_String(bytes, charset) ==
  [ i \in 1..Len(bytes) |->
      IF bytes[i] >= 128 /\ charset = "UTF-8" THEN 65533 ELSE bytes[i] ]

\* C++ LuaConsole::SendChunk after writeData and readData returned
Cpp_SendChunk(k) ==
  IF k.written /\ k.read /\ k.response # <<>>
  THEN LET code == SignedChar(k.response[1])
       IN IF (code >= 0) /\ (code <= 2)
          THEN [ k EXCEPT !.pc = "done", !.code = ResultCode(code),
                          !.string = IF Len(k.response) > 1
                                     THEN Tail(k.response) ELSE <<>> ]
          ELSE IF k.exceptions
          THEN [ k EXCEPT !.pc = "done",
                   !.raised = "unknown return code from Console service" ]
          ELSE [ k EXCEPT !.pc = "done" ]
  ELSE [ k EXCEPT !.pc = "done" ]

\* C# LuaConsole.SendChunk
Cs_SendChunk(k) ==
  IF k.written
  THEN IF k.read /\ (Len(k.response) > 0)
       THEN LET code == k.response[1]
            IN IF (code >= 0) /\ (code <= 2)
               THEN [ k EXCEPT !.pc = "done", !.code = ResultCode(code),
                               !.string =
                                 IF Len(k.response) > 1
                                 THEN ASCII_GetString(Tail(k.response))
                                 ELSE <<>> ]
               ELSE [ k EXCEPT !.pc = "done" ]
       ELSE [ k EXCEPT !.pc = "done" ]
  ELSE [ k EXCEPT !.pc = "done" ]

\* Java LuaConsole.SendChunk
Java_SendChunk(k) ==
  IF k.written
  THEN IF k.read
       THEN IF k.response = <<>>
            THEN [ k EXCEPT !.pc = "done",
                            !.raised = "BufferUnderflowException" ]
            ELSE
              LET code == SignedChar(k.response[1])
                  string == IF Len(k.response) > 1
                            THEN Java_String(Tail(k.response), k.charset)
                            ELSE <<>>
              IN IF 0 = code
                 THEN [ k EXCEPT !.pc = "done", !.code = "Success",
                                 !.string = string ]
                 ELSE IF 1 = code
                 THEN [ k EXCEPT !.pc = "done", !.code = "Continue",
                                 !.string = string ]
                 ELSE IF 2 = code
                 THEN [ k EXCEPT !.pc = "done", !.code = "Failure",
                                 !.string = string ]
                 ELSE [ k EXCEPT !.pc = "done",
                          !.raised =
                            "unknown return code from Console service" ]
       ELSE [ k EXCEPT !.pc = "done" ]
  ELSE [ k EXCEPT !.pc = "done" ]

\* the responses of the console service: a result code and printed output
ConsoleLangs == { "cpp", "cs", "java" }
ConsoleCodes == { 0, 1, 2, 3, 255 }
OutputBytes == { 72, 233 }
ConsoleOutputs ==
  UNION { [ 1..n -> OutputBytes ] : n \in 0..MaxOutput }
ConsoleResponses ==
  { <<>> } \cup { << c >> \o out : c \in ConsoleCodes,
                                   out \in ConsoleOutputs }

\* an application is about to send a chunk; written and read are what
\* client.writeData and client.readData are going to return
InitConsole ==
  /\ ClientInit
  /\ use_exceptions
  /\ decode = NoDecode
  /\ element = NoElement
  /\ device = NoDevice
  /\ file = NoFile
  /\ rotation = NoRotation
  /\ \E lang \in ConsoleLangs, exceptions \in BOOLEAN,
        charset \in { "UTF-8", "ISO-8859-1" },
        written \in BOOLEAN, response \in ConsoleResponses :
       /\ lang = "cpp" \/ exceptions
       /\ lang = "java" \/ charset = "UTF-8"
       /\ console = [ NoConsole EXCEPT
                        !.lang = lang, !.exceptions = exceptions,
                        !.charset = charset, !.written = written,
                        !.read = (response # <<>>),
                        !.response = response, !.pc = "call" ]

\* LuaConsole.SendChunk(client, chunk, time_out_second)
SendChunk ==
  /\ console.pc = "call"
  /\ console' = IF console.lang = "cpp" THEN Cpp_SendChunk(console)
                ELSE IF console.lang = "cs" THEN Cs_SendChunk(console)
                ELSE Java_SendChunk(console)
  /\ UNCHANGED << ClientVars, device, file, rotation, decode, element >>

NextConsole == SendChunk

SpecConsole == InitConsole /\ [][NextConsole]_vars

\* C29: the first byte of a console response is mapped 0 -> success,
\* 1 -> failure, 2 -> incomplete (continue), and the remaining bytes are
\* returned as the printed output
C29_ResultCodes ==
  ( /\ console.pc = "done"
    /\ console.written
    /\ console.response # <<>>
    /\ console.response[1] \in { 0, 1, 2 } )
  => /\ console.raised = ""
     /\ console.code = ( IF console.response[1] = 0 THEN "Success"
                         ELSE IF console.response[1] = 1 THEN "Failure"
                         ELSE "Continue" )
     /\ console.string = Tail(console.response)


\* ---------------------------------------------------------------------
\* File: reading the samples of a take file (File.hpp, File.cpp)
\* ---------------------------------------------------------------------

\* the longest take file, in bytes
MaxFileBytes == 5

\* the largest data.size() of a request
MaxData == 2

\* the bytes a take file is made of
FileBytes == { 0, 1, 255 }

\* the take files
TakeFiles == UNION { [ 1..n -> FileBytes ] : n \in 0..MaxFileBytes }

\* the vectors the caller hands to readData, with what they hold before
DataVectors == UNION { [ 1..n -> { 0, 7 } ] : n \in 0..MaxData }

\* std::fill(data.begin(), data.end(), T())
FillZeros(data) == [ i \in 1..Len(data) |-> 0 ]

\* File::File: the stream is good iff the file could be opened
File_new(bytes, opened, data) ==
  [ NoFile EXCEPT !.is_open = opened, !.good = opened, !.bytes = bytes,
                  !.length = Len(data), !.data = data ]

\* File::close: std::ifstream::close leaves the state flags as they are
File_close(f, exceptions) ==
  IF f.is_open
    THEN [ f EXCEPT !.is_open = FALSE ]
    ELSE IF exceptions
           THEN [ f EXCEPT !.raised = "runtime_error" ]
           ELSE f

\* m_input.read followed by little_endian_to_native on every element:
\* the values of the little-endian bytes at the current position
ReadBlock(f) ==
  [ i \in 1..Len(f.data) |->
      ToInt16(f.bytes, f.position + SizeofShort * (i - 1)) ]

\* File::readData<short>
File_readData(f, exceptions) ==
  LET data_byte_size == Len(f.data) * SizeofShort
      available == IF f.is_open THEN Len(f.bytes) - f.position ELSE 0
      failed == [ f EXCEPT !.good = FALSE, !.gcount = available,
                           !.position = IF f.is_open THEN Len(f.bytes)
                                                     ELSE f.position ]
      closed == File_close(failed, exceptions)
  IN  IF f.data = <<>>
        THEN [ f EXCEPT !.result = FALSE, !.gcount = 0 ]
        ELSE IF ~f.good
          THEN [ f EXCEPT !.result = FALSE, !.gcount = 0,
                          !.data = FillZeros(f.data) ]
          ELSE IF available >= data_byte_size
            THEN [ f EXCEPT !.result = TRUE, !.gcount = data_byte_size,
                            !.data = ReadBlock(f),
                            !.position = f.position + data_byte_size ]
            ELSE IF closed.raised # ""
              THEN closed
              ELSE [ closed EXCEPT !.result = FALSE,
                                   !.data = FillZeros(f.data) ]

\* the little-endian values of length shorts before the position
ShortsBefore(bytes, position, length) ==
  [ i \in 1..length |->
      ToInt16(bytes, position - SizeofShort * (length - i + 1)) ]

\* Java File.close: FileInputStream.close, which may be repeated
Java_File_close(f) == [ f EXCEPT !.is_open = FALSE ]

\* Java File.readData(length) as File.readShortData(length) calls it:
\* FileInputStream.read(byte[]) gives the bytes left, at most length of
\* them, -1 at the end of the file, and throws once the stream is closed
Java_File_readShortData(f) ==
  LET length == f.length * SizeofShort
      left == Len(f.bytes) - f.position
      n == IF left = 0 THEN -1 ELSE IF left < length THEN left ELSE length
  IN  IF length > 0
        THEN IF ~f.is_open
          THEN [ f EXCEPT !.raised = "IOException" ]
          ELSE IF length = n
            THEN [ f EXCEPT !.result = TRUE, !.gcount = n,
                            !.position = f.position + n,
                            !.data = ShortsBefore(f.bytes, f.position + n,
                                                  f.length) ]
            ELSE [ Java_File_close(f) EXCEPT
                     !.result = FALSE, !.gcount = IF n < 0 THEN 0 ELSE n,
                     !.position = Len(f.bytes), !.data = <<>> ]
        ELSE [ f EXCEPT !.result = FALSE, !.gcount = 0, !.data = <<>> ]

\* C# File.close: m_in = null, m_file = null
Cs_File_close(f) == [ f EXCEPT !.is_open = FALSE ]

\* C# File.readShortData(length): BinaryReader.ReadInt16 throws
\* EndOfStreamException when fewer than two bytes are left
Cs_File_readShortData(f) ==
  LET left == Len(f.bytes) - f.position
      whole == IF left \div SizeofShort < f.length
                 THEN left \div SizeofShort ELSE f.length
  IN  IF f.length > 0 /\ f.is_open
        THEN IF whole = f.length
          THEN [ f EXCEPT !.result = TRUE, !.gcount = whole * SizeofShort,
                          !.position = f.position + whole * SizeofShort,
                          !.data = ShortsBefore(f.bytes,
                                     f.position + whole * SizeofShort,
                                     f.length) ]
          ELSE [ Cs_File_close(f) EXCEPT
                   !.result = FALSE, !.gcount = left,
                   !.position = Len(f.bytes), !.data = <<>> ]
        ELSE [ f EXCEPT !.result = FALSE, !.gcount = 0, !.data = <<>> ]

FileLangs == { "cpp", "cs", "java" }

InitFile ==
  /\ ClientInit
  /\ decode = NoDecode
  /\ element = NoElement
  /\ device = NoDevice
  /\ rotation = NoRotation
  /\ console = NoConsole
  /\ \E lang \in FileLangs, bytes \in TakeFiles, opened \in BOOLEAN,
        data \in DataVectors :
       /\ opened \/ (lang = "cpp" /\ ~use_exceptions)
       /\ lang = "cpp" \/ (use_exceptions /\ data = FillZeros(data))
       /\ file = [ File_new(bytes, opened, data) EXCEPT !.lang = lang ]

\* file.readData(data), file.readShortData(length); ended records that a
\* read of this File has reported that there is no more data
FileReadData ==
  /\ file.raised = ""
  /\ LET f == CASE file.lang = "cpp"
                    -> File_readData(file, use_exceptions)
               [] file.lang = "cs" -> Cs_File_readShortData(file)
               [] file.lang = "java" -> Java_File_readShortData(file)
     IN file' = [ f EXCEPT !.op = "readData",
                           !.ended = @ \/ (f.raised = "" /\ ~f.result) ]
  /\ UNCHANGED << ClientVars, device, console, rotation, decode, element >>

\* file.close()
FileClose ==
  /\ file.raised = ""
  /\ file.op # "close"
  /\ file' = [ ( CASE file.lang = "cpp" -> File_close(file, use_exceptions)
                   [] file.lang = "cs" -> Cs_File_close(file)
                   [] file.lang = "java" -> Java_File_close(file) )
                EXCEPT !.op = "close" ]
  /\ UNCHANGED << ClientVars, device, console, rotation, decode, element >>

NextFile == FileReadData \/ FileClose

SpecFile == InitFile /\ [][NextFile]_vars

\* C30: readData returns TRUE iff exactly data.size() > 0 elements were
\* read from the file into data, and otherwise (empty request, partial
\* record, end of file, closed stream) returns FALSE with data holding
\* only zeros; every TRUE moves the position on by a whole record, never
\* past the end of the file, so the loop over a finite file ends.
C30_ReadData ==
  ( file.lang = "cpp" /\ file.op = "readData" )
  => /\ file.raised = ""
     /\ file.result
          <=> /\ file.data # <<>>
              /\ file.gcount = Len(file.data) * SizeofShort
     /\ file.result
          => /\ file.position <= Len(file.bytes)
             /\ \A i \in 1..Len(file.data) :
                  file.data[i] =
                    ToInt16(file.bytes,
                            file.position
                              - SizeofShort * (Len(file.data) - i + 1))
     /\ ~file.result => file.data = FillZeros(file.data)

\* C31: once a read of a take file has reported that there is no more
\* data (false, null), every later read of that File reports the same
\* and raises no error.
C31_EndOfFileStays ==
  [][ ( file.ended /\ file' # file /\ file'.op = "readData" )
      => ( file'.raised = "" /\ ~file'.result ) ]_vars

\* C32: whenever a Configurable decode returns a non-empty map, the map has
\* an entry for every record id present in the buffer, the records that
\* declare M = 0 values included
C32_EntryPerRecord ==
  ( /\ decode.op = "Configurable"
    /\ decode.stray = <<>>
    /\ decode.raised = ""
    /\ DOMAIN decode.result # {} )
  => \A i \in 1..Len(decode.records) :
       decode.records[i].id \in DOMAIN decode.result

\* C38: the time outs the client caches are the ones configured on the
\* socket: while the client is connected, the cached receive time out is
\* the receive time out of the socket and the cached send time out is its
\* send time out, whatever calls were made
C38_CachedTimeouts ==
  ( life = "live" /\ sock_state = "connected" )
  => /\ m_time_out_second = so_rcvtimeo
     /\ m_time_out_second_send = so_sndtimeo

\* C34: whenever a read (the constructor's read of the greeting, waitForData,
\* readData) has ended, by return or by error, and the client is still
\* connected, every byte taken from the socket is part of a complete frame
\* that the read path returned or is kept in the pending bytes, so that the
\* next read starts at a length header -- also after a time out inside a
\* header or a payload
C34_FrameBoundary ==
  ( /\ ret.op \in ReadCalls \cup { "ctor" }
    /\ life = "live"
    /\ m_socket > 0 /\ sock_state = "connected"
    /\ link = "up" /\ ~peer_bad )
  => Conserved

\* C35: for every input buffer the Configurable decoding ends without
\* raising and gives the empty or absent result for a buffer that is not
\* a sequence of whole records -- also when a declared length M is negative
\* or M * 4 is beyond the 32 bit signed range
C35_ConfigurableTotal ==
  decode.op = "Configurable"
  => /\ decode.raised = ""
     /\ decode.stray # <<>> => Cardinality(DOMAIN decode.result) = 0

(***************************************************************************)
(* The Device plugin (File.hpp 190-1259): a Manager runs one Reader thread *)
(* for a data stream and routes its samples to the attached Sampler.  The  *)
(* main thread calls Manager::attach and Manager::detach, the reader       *)
(* thread runs Reader::operator(), a consumer thread calls                 *)
(* Sampler::get_data_block.  A section of code under one lock is one step; *)
(* a thread that needs a mutex another thread holds has no step.           *)
(***************************************************************************)

\* the most samples the data service sends
MaxSamples == 2

\* Sampler::set_data(data) for m_key = 0: store the sample and notify_all
Sampler_set_data(d, data) ==
  [ d EXCEPT !.m_list = IF d.buffered THEN Append(@, data) ELSE @,
             !.m_data = IF d.buffered THEN @ ELSE data,
             !.consumer = IF @ = "waiting" THEN "woken" ELSE @ ]

\* Manager::set_data_slot from the lock of m_mutex on: the result, and the
\* state after the samplers of the node were given the data
set_data_slot_result(d, data) ==
  d.node /\ (data # "empty" \/ d.quit) /\ d.m_sampler_id # 0

set_data_slot(d, data) ==
  IF set_data_slot_result(d, data) THEN Sampler_set_data(d, data) ELSE d

\* Sampler::get_data_block(data) from the return of wait, or from the test
\* that found the list not empty, to its return
get_data_block_finish(d) ==
  IF d.buffered
    THEN IF d.m_list # <<>> /\ Head(d.m_list) # "empty"
           THEN [ d EXCEPT !.m_list = Tail(@), !.result = TRUE,
                           !.consumer = "returned" ]
           ELSE [ d EXCEPT !.result = FALSE, !.consumer = "returned" ]
    ELSE [ d EXCEPT !.result = (d.m_data # "empty"),
                    !.consumer = "returned" ]

\* Manager::attach has inserted the node and spawned the reader thread; it
\* holds m_mutex and is about to wait for m_running
InitDevice ==
  /\ ClientInit
  /\ decode = NoDecode
  /\ element = NoElement
  /\ rotation = NoRotation
  /\ console = NoConsole
  /\ file = NoFile
  /\ \E buffered \in BOOLEAN :
       device = [ NoDevice EXCEPT !.buffered = buffered, !.node = TRUE,
                                  !.m_mutex = "main", !.reader = "start",
                                  !.main = "attach_wait",
                                  !.consumer = "idle" ]

Device(d) ==
  /\ device' = d
  /\ UNCHANGED << ClientVars, file, console, rotation, decode, element >>

\* Reader::operator(): m_state.connected(false); m_state.reading(false)
ReaderStart ==
  /\ device.reader = "start"
  /\ Device([ device EXCEPT !.connected = FALSE, !.reading = FALSE,
                            !.reader = "connect" ])

\* Client client(m_address, m_port): a failed connection throws in the
\* build with exceptions; then m_state.connected(true), the initialization
\* string is written and m_running = true
ReaderConnect(ok) ==
  /\ device.reader = "connect"
  /\ Device(IF ~ok /\ use_exceptions
              THEN [ device EXCEPT !.reader = "exit_connected" ]
              ELSE [ device EXCEPT !.connected = TRUE,
                                   !.m_running = "true",
                                   !.reader = "loop" ])

\* while (!m_state.quit())
ReaderLoop ==
  /\ device.reader = "loop"
  /\ Device([ device EXCEPT !.reader = IF device.quit THEN "exit_connected"
                                                      ELSE "wait" ])

\* if (client.waitForData() && !m_state.quit()) m_state.reading(true);
\* r is what waitForData does
ReaderWaitForData(r) ==
  /\ device.reader = "wait"
  /\ r = "throw" => use_exceptions
  /\ Device(IF r = "throw"
              THEN [ device EXCEPT !.reader = "exit_connected" ]
              ELSE IF r = "true" /\ ~device.quit
                THEN [ device EXCEPT !.reading = TRUE, !.reader = "read" ]
                ELSE [ device EXCEPT !.reader = "loop" ])

\* while (client.readData(data) && !m_state.quit()) up to the test of
\* m_data_fn; when the loop ends, m_state.reading(false)
ReaderReadData(r) ==
  /\ device.reader = "read"
  /\ r = "throw" => use_exceptions
  /\ r = "true" => device.samples < MaxSamples
  /\ Device(IF r = "throw"
              THEN [ device EXCEPT !.reader = "exit_connected" ]
              ELSE IF r = "true" /\ ~device.quit
                THEN [ device EXCEPT
                         !.samples = @ + 1,
                         !.reader = IF device.m_data_fn THEN "call" ELSE @ ]
                ELSE [ device EXCEPT
                         !.samples = IF r = "true" THEN @ + 1 ELSE @,
                         !.reading = FALSE, !.reader = "loop" ])

\* m_data_fn(data) is invoked: the reader thread reads m_data_fn without a
\* lock, so when detach has emptied it since the test the call either
\* reaches Manager::set_data_slot or throws boost::bad_function_call
ReaderCall(stale) ==
  /\ device.reader = "call"
  /\ stale => ~device.m_data_fn
  /\ Device([ device EXCEPT
                !.reader = IF device.m_data_fn \/ stale THEN "slot"
                                                        ELSE "exit_connected" ])

\* Manager::set_data_slot in the reader loop, once it has m_mutex; on a
\* false result m_state.quit(true), break and m_state.reading(false)
ReaderSetData ==
  /\ device.reader = "slot"
  /\ device.m_mutex = "none"
  /\ Device(IF set_data_slot_result(device, "sample")
              THEN [ set_data_slot(device, "sample") EXCEPT !.reader = "read" ]
              ELSE [ device EXCEPT !.quit = TRUE, !.reading = FALSE,
                                   !.reader = "loop" ])

\* after the catch clauses: m_state.connected(false)
ReaderExitConnected ==
  /\ device.reader = "exit_connected"
  /\ Device([ device EXCEPT !.connected = FALSE,
                            !.reader = "exit_reading" ])

\* m_state.reading(false)
ReaderExitReading ==
  /\ device.reader = "exit_reading"
  /\ Device([ device EXCEPT !.reading = FALSE, !.reader = "exit_quit" ])

\* m_state.quit(true); if (m_data_fn) m_data_fn(Client::data_type())
ReaderExitQuit ==
  /\ device.reader = "exit_quit"
  /\ Device([ device EXCEPT
                !.quit = TRUE,
                !.reader = IF device.m_data_fn THEN "exit_slot"
                                               ELSE "exit_running" ])

\* Manager::set_data_slot with the empty data, once it has m_mutex
ReaderExitSetData ==
  /\ device.reader = "exit_slot"
  /\ device.m_mutex = "none"
  /\ Device([ set_data_slot(device, "empty") EXCEPT
                !.reader = "exit_running" ])

\* m_running = false
ReaderExitRunning ==
  /\ device.reader = "exit_running"
  /\ Device([ device EXCEPT !.m_running = "false", !.reader = "done" ])

\* Manager::attach: reader->m_running << true answered true; the sampler
\* gets its id, is stored in the node, and the data callback is registered
AttachRunning ==
  /\ device.main = "attach_wait"
  /\ device.m_running = "true"
  /\ Device([ device EXCEPT !.m_sampler_id = 1, !.m_data_fn = TRUE,
                            !.m_mutex = "none", !.main = "attached" ])

\* Manager::attach: m_running is false, or still indeterminate after the
\* 5 seconds of the timed wait: reader->quit(true), then the join
AttachFailed ==
  /\ device.main = "attach_wait"
  /\ device.m_running # "true"
  /\ Device([ device EXCEPT !.quit = TRUE, !.main = "attach_join" ])

\* Manager::attach: the join returned; the node is erased
AttachJoined ==
  /\ device.main = "attach_join"
  /\ device.reader = "done"
  /\ Device([ device EXCEPT !.node = FALSE, !.m_mutex = "none",
                            !.main = "attach_failed" ])

\* Manager::detach(sampler) for the attached sampler, the last of its
\* node, once it has m_mutex: the sampler is erased, m_data_fn emptied,
\* reader->quit(true), and the thread is joined with m_mutex held
Detach ==
  /\ device.main = "attached"
  /\ device.m_mutex = "none"
  /\ Device([ device EXCEPT !.m_mutex = "main", !.m_sampler_id = 0,
                            !.m_data_fn = FALSE, !.quit = TRUE,
                            !.main = "detach_join" ])

\* Manager::detach: the join returned; the node is erased and detach
\* returns true
DetachJoined ==
  /\ device.main = "detach_join"
  /\ device.reader = "done"
  /\ Device([ device EXCEPT !.node = FALSE, !.m_mutex = "none",
                            !.main = "detached" ])

\* sampler.get_data_block(data): data.clear(), then the wait on
\* m_condition -- always in the build without the list, for an empty list
\* in the buffered build
GetDataBlock ==
  /\ device.consumer \in { "idle", "returned" }
  /\ device.main \in { "attached", "detach_join", "detached" }
  /\ Device(IF device.buffered /\ device.m_list # <<>>
              THEN get_data_block_finish(device)
              ELSE [ device EXCEPT !.consumer = "waiting" ])

\* get_data_block after notify_all woke it
GetDataBlockWoken ==
  /\ device.consumer = "woken"
  /\ Device(get_data_block_finish(device))

ReaderStep ==
  \/ ReaderStart
  \/ \E ok \in BOOLEAN : ReaderConnect(ok)
  \/ ReaderLoop
  \/ \E r \in { "true", "false", "throw" } : ReaderWaitForData(r)
  \/ \E r \in { "true", "false", "throw" } : ReaderReadData(r)
  \/ \E stale \in BOOLEAN : ReaderCall(stale)
  \/ ReaderSetData
  \/ ReaderExitConnected
  \/ ReaderExitReading
  \/ ReaderExitQuit
  \/ ReaderExitSetData
  \/ ReaderExitRunning

MainStep ==
  \/ AttachRunning
  \/ AttachFailed
  \/ AttachJoined
  \/ DetachJoined

ConsumerStep == GetDataBlockWoken

NextDevice == ReaderStep \/ MainStep \/ ConsumerStep \/ Detach \/ GetDataBlock

SpecDevice == InitDevice /\ [][NextDevice]_vars

\* every thread that can take a step takes one; the application is free to
\* call detach and get_data_block or not
SpecDeviceFair ==
  /\ SpecDevice
  /\ WF_vars(ReaderStep)
  /\ WF_vars(MainStep)
  /\ WF_vars(ConsumerStep)

\* C33: Manager::detach of the last Sampler of a stream always returns,
\* whatever the reader thread is doing when it is called, and when it has
\* returned the reader thread has been told to quit and has ended and the
\* node of the stream is removed
C33_DetachReturns ==
  ( device.main = "detach_join" )
    ~> ( /\ device.main = "detached"
         /\ device.quit /\ device.reader = "done" /\ ~device.node )

\* C36: a get_data_block without time out does not block forever once the
\* stream has ended: when the reader thread has ended, the call returns
C36_BlockEnds ==
  ( device.consumer = "waiting" /\ device.reader = "done" )
    ~> ( device.consumer = "returned" )

\* C37: at every moment, on every path of the reader thread, is_reading()
\* implies is_connected()
C37_ReadingImpliesConnected == device.reading => device.connected

=============================================================================
